---------------------------- MODULE Spec2Model ----------------------------
(***************************************************************************)
(* The ACP-GW bridge of clawdis: the Protocol Translator (AcpGwAgent,      *)
(* src/src/acp-gw/translator.ts) over the Session Registry (session.js),   *)
(* driven by the front-protocol client (newSession, prompt, cancel), by    *)
(* the Gateway's RPC responses and by the Gateway's pushed chat events.    *)
(*                                                                         *)
(* Every action is one JavaScript callback run to completion: the runtime  *)
(* is single-threaded, so a handler's synchronous part is atomic and the   *)
(* only suspension points are the awaited Gateway RPCs (chat.send's        *)
(* .catch callback, cancel's awaited chat.abort).                          *)
(***************************************************************************)
EXTENDS Integers, Sequences, FiniteSets, TLC

(***************************************************************************)
(* Bounds of the model.                                                    *)
(***************************************************************************)
\* sessions created by newSession
MaxSessions == 2
\* sessions of the streaming specification
StreamSessions == 1
\* prompt calls accepted (each draws a fresh runId)
MaxRuns == 2
\* cancel calls of one session suspended on chat.abort at the same time
MaxCancels == 1
\* sessions, prompt calls, suspended cancel calls of one session and
\* sessions.patch requests of the call machine
CallSessions == 2
CallRuns == 1
CallCancels == 1
CallModes == 1
\* sessions, prompt calls and Gateway clients (the first one and those the
\* reconnect timers create) of the bridge machine
BridgeSessions == 1
BridgeRuns == 2
BridgeClients == 3
\* Gateway clients of the reconnect machine, the attempt limit of its limited
\* web policy, and the attempts made under its unlimited web policy
MaxClients == 7
WebMaxAttempts == 3
WebAttempts == 4
\* sessions, prompt calls and tool notifications of the tool machine
ToolSessions == 2
ToolRuns == 2
ToolUpdates == 2
\* length of the short cumulative texts of the streaming specification
MaxLen == 3

(***************************************************************************)
(* Program constants.                                                      *)
(***************************************************************************)
\* translator.ts:203  Math.min(20, sentText.length)
DupPrefixLen == 20

\* an optional value: {} when undefined, {v} when it holds v
Undefined == {}
Some(v) == {v}

(***************************************************************************)
(* Text: a JavaScript string as a sequence of characters.                  *)
(***************************************************************************)
Min(a, b) == IF a <= b THEN a ELSE b

\* String.prototype.slice(start)
SliceFrom(t, start) == SubSeq(t, Min(start, Len(t)) + 1, Len(t))

\* String.prototype.slice(0, end)
SliceTo(t, end) == SubSeq(t, 1, Min(end, Len(t)))

\* String.prototype.startsWith(p)
StartsWith(t, p) == Len(p) <= Len(t) /\ SubSeq(t, 1, Len(p)) = p

\* v ?? d
OrElse(v, d) == IF v = Undefined THEN d ELSE CHOOSE x \in v : TRUE

RECURSIVE Rep(_, _)
Rep(c, n) == IF n = 0 THEN <<>> ELSE <<c>> \o Rep(c, n - 1)

Chars == {"a", "b"}

RECURSIVE TextsUpTo(_)
TextsUpTo(n) ==
    IF n = 0 THEN {<<>>}
    ELSE LET shorter == TextsUpTo(n - 1)
         IN  shorter \cup {t \o <<c>> : t \in {u \in shorter : Len(u) = n - 1}, c \in Chars}




(***************************************************************************)
(* State.                                                                  *)
(***************************************************************************)
VARIABLES
    sessions,        \* Session Registry: sessionId -> SessionRecord
    aborted,         \* cancellation handles (one per run) that were invoked
    pendingPrompts,  \* AcpGwAgent.pendingPrompts: sessionId -> PendingRequest
    connected,       \* AcpGwAgent.connected
    deferred,        \* runId -> the promise returned by that prompt call
    chatSend,        \* runId -> the chat.send RPC issued by that prompt call
    abortCalls,      \* sessionId -> cancel calls suspended on chat.abort, each
                     \* with the run that was active when it was called
    gw,              \* runId -> whether the Gateway is still running the run
    stream,          \* sessionId -> what was streamed since the session's latest prompt
    returned,        \* operation -> what its call that completed last gave its caller
    modeCalls,       \* the sessions.patch requests of the setSessionMode calls, in order
    toolCalls,       \* the tool notifications sent to the client (sessionUpdate), in order
    bridge,          \* serveAcpGw's closure: clients created, reconnectAttempts, reconnectTimer
    monitor,         \* monitorWebProvider's frame: position, reconnectAttempts, policy
    tau              \* a TauRpcClient: child, pending slot, buffer, and its prompt calls

translatorVars == <<sessions, aborted, pendingPrompts, connected, deferred, chatSend,
                    abortCalls, gw, stream>>

callVars == <<returned, modeCalls, toolCalls>>

loopVars == <<bridge, monitor, tau>>

vars == <<sessions, aborted, pendingPrompts, connected, deferred, chatSend,
          abortCalls, gw, stream, returned, modeCalls, toolCalls, bridge, monitor,
          tau>>

\* crypto.randomUUID(): an identifier no earlier call returned
NextSessionId == Cardinality(DOMAIN sessions) + 1
NextRunId == Cardinality(DOMAIN deferred) + 1

\* a sessionId no createSession call returned
UnknownSession == 0

\* an empty active-run slot (activeRunId and abortController null)
NoRun == 0

Cwds == {"/tmp/x"}

(***************************************************************************)
(* Session Registry (session.js), over reg = [sessions, aborted].          *)
(***************************************************************************)
Registry == [sessions |-> sessions, aborted |-> aborted]

\* the Gateway session key, derived deterministically from the sessionId
SessionKeyOf(sid) == <<"acp", sid>>

\* a registry that files every session under one working directory
createSessionDefaultCwd(reg, cwd) ==
    LET sid == Cardinality(DOMAIN reg.sessions) + 1
    IN  [reg EXCEPT !.sessions = @ @@ (sid :>
            [sessionId |-> sid, sessionKey |-> SessionKeyOf(sid), cwd |-> "/tmp/x",
             activeRunId |-> NoRun, abortController |-> NoRun])]

createSession(reg, cwd) ==
    LET sid == Cardinality(DOMAIN reg.sessions) + 1
    IN  [reg EXCEPT !.sessions = @ @@ (sid :>
            [sessionId |-> sid, sessionKey |-> SessionKeyOf(sid), cwd |-> cwd,
             activeRunId |-> NoRun, abortController |-> NoRun])]

getSession(reg, sid) ==
    IF sid \in DOMAIN reg.sessions THEN Some(reg.sessions[sid]) ELSE Undefined

getSessionByRunId(reg, runId) ==
    LET hits == {sid \in DOMAIN reg.sessions : reg.sessions[sid].activeRunId = runId}
    IN  IF hits = {} THEN Undefined ELSE Some(reg.sessions[CHOOSE sid \in hits : TRUE])

\* the record of a session that getSession found
The(opt) == CHOOSE x \in opt : TRUE

\* a registry that files the cancellation handle and not the runId
setActiveRunHandleOnly(reg, sid, runId, handle) ==
    IF sid \in DOMAIN reg.sessions
    THEN [reg EXCEPT !.sessions[sid].abortController = handle]
    ELSE reg

setActiveRun(reg, sid, runId, handle) ==
    IF sid \in DOMAIN reg.sessions
    THEN [reg EXCEPT !.sessions[sid].activeRunId = runId,
                     !.sessions[sid].abortController = handle]
    ELSE reg

clearActiveRun(reg, sid) ==
    IF sid \in DOMAIN reg.sessions
    THEN [reg EXCEPT !.sessions[sid].activeRunId = NoRun,
                     !.sessions[sid].abortController = NoRun]
    ELSE reg

\* invokes the stored cancellation handle, then clears; a no-op without one
cancelActiveRun(reg, sid) ==
    IF sid \in DOMAIN reg.sessions /\ reg.sessions[sid].abortController # NoRun
    THEN [sessions |-> clearActiveRun(reg, sid).sessions,
          aborted  |-> reg.aborted \cup {reg.sessions[sid].abortController}]
    ELSE reg

(***************************************************************************)
(* The promise of one prompt call: the first resolve or reject settles it, *)
(* a later one changes nothing.                                            *)
(***************************************************************************)
Unsettled == [state |-> "pending", value |-> <<>>]

Resolve(d, stopReason) ==
    IF d.state = "pending" THEN [state |-> "resolved", value |-> stopReason] ELSE d

Reject(d, err) ==
    IF d.state = "pending" THEN [state |-> "rejected", value |-> err] ELSE d

\* nothing streamed yet: no chunk forwarded, no delta handled
NoStream == [chunks |-> <<>>, lastFull |-> <<>>, extending |-> TRUE]

\* Map.delete(key)
MapDelete(m, k) == [x \in DOMAIN m \ {k} |-> m[x]]

\* Map.set(key, value)
MapSet(m, k, v) == [x \in DOMAIN m \cup {k} |-> IF x = k THEN v ELSE m[x]]

(***************************************************************************)
(* Init: the state after new AcpGwAgent(connection, gateway, opts).        *)
(***************************************************************************)
\* the operations of the front protocol whose calls can fail or be suspended
Operations == {"prompt", "cancel", "setSessionMode", "loadSession"}

\* serveAcpGw before its body ran: no client, let reconnectAttempts = 0,
\* let reconnectTimer = null, no timer pending in the runtime.  delays lists
\* the delays of the timers armed since the counter was last reset, scheduled
\* tells how the latest call of scheduleReconnect ended.  Of the clients
\* created so far, numbered in the order of their creation (the latest is the
\* one in the variable gateway), up are those whose connection is up, and
\* since is the first runId a prompt could take when the latest was created.
BridgeInit ==
    [clients |-> 0, reconnectAttempts |-> 0, reconnectTimer |-> Undefined,
     pendingTimers |-> <<>>, delays |-> <<>>, scheduled |-> "never",
     up |-> {}, since |-> 1]

\* monitorWebProvider before it is called: the abort signal has not fired, no
\* SIGINT was received.  delays lists the delays slept since the counter was
\* last reset, exit tells why the loop was left.
MonitorInit ==
    [pc |-> "idle", keepAlive |-> TRUE, maxAttempts |-> 0, reconnectAttempts |-> 0,
     aborted |-> FALSE, sigintStop |-> FALSE, delays |-> <<>>, exit |-> "running"]

\* new TauRpcClient(argv, cwd): no child, nothing pending, an empty buffer.
\* spawned counts the children spawned, running holds those that have not
\* emitted exit yet, killed those kill() was called on, released tells
\* that resetPiRpc let go of the client, and calls lists the prompt calls
\* in the order they were made.
TauInit ==
    [child |-> 0, spawned |-> 0, running |-> {}, killed |-> {}, pending |-> Undefined,
     buffer |-> 0, released |-> FALSE, calls |-> <<>>]

Init ==
    /\ sessions = <<>>
    /\ aborted = {}
    /\ pendingPrompts = <<>>
    /\ connected = FALSE
    /\ deferred = <<>>
    /\ chatSend = <<>>
    /\ abortCalls = <<>>
    /\ gw = <<>>
    /\ stream = <<>>
    /\ returned = [op \in Operations |-> Undefined]
    /\ modeCalls = <<>>
    /\ toolCalls = <<>>
    /\ bridge = BridgeInit
    /\ monitor = MonitorInit
    /\ tau = TauInit

\* start()
Start ==
    /\ connected' = TRUE
    /\ UNCHANGED <<sessions, aborted, pendingPrompts, deferred, chatSend,
                   abortCalls, gw, stream>>

\* handleGatewayReconnect(): the Translator is connected again; nothing is
\* re-sent and no rejected prompt is revived
HandleGatewayReconnectReviving ==
    /\ connected' = TRUE
    /\ deferred' = [r \in DOMAIN deferred |->
                        IF deferred[r].state = "rejected" THEN Unsettled ELSE deferred[r]]
    /\ UNCHANGED <<sessions, aborted, pendingPrompts, chatSend, abortCalls, gw, stream>>

HandleGatewayReconnect ==
    /\ connected' = TRUE
    /\ UNCHANGED <<sessions, aborted, pendingPrompts, deferred, chatSend,
                   abortCalls, gw, stream>>

\* newSession(params)
NewSession(cwd) ==
    /\ sessions' = createSession(Registry, cwd).sessions
    /\ abortCalls' = abortCalls @@ (NextSessionId :> <<>>)
    /\ UNCHANGED <<aborted, pendingPrompts, connected, deferred, chatSend, gw, stream>>

(***************************************************************************)
(* prompt(params)                                                          *)
(***************************************************************************)
\* a prompt that registers the new run without cancelling the active one
PromptRegistryNoCancel(sid, runId) == setActiveRun(Registry, sid, runId, runId)

\* the registry after "cancel any existing prompt" and setActiveRun
PromptRegistry(sid, runId) ==
    LET reg == IF The(getSession(Registry, sid)).abortController # NoRun
               THEN cancelActiveRun(Registry, sid)
               ELSE Registry
    IN  setActiveRun(reg, sid, runId, runId)

\* the PendingRequest recorded by the promise executor
PromptPending(sid, runId) ==
    [sessionId |-> sid, idempotencyKey |-> runId,
     sentTextLength |-> Undefined, sentText |-> Undefined]

\* a chat.send request that carries an idempotency key of its own
PromptRequestOwnKey(sid, runId) ==
    [sessionId |-> sid, sessionKey |-> The(getSession(Registry, sid)).sessionKey,
     idempotencyKey |-> runId + 1, status |-> "inflight"]

\* the chat.send request
PromptRequest(sid, runId) ==
    [sessionId |-> sid, sessionKey |-> The(getSession(Registry, sid)).sessionKey,
     idempotencyKey |-> runId, status |-> "inflight"]

\* the error prompt throws before it does anything, if any
PromptError(sid) ==
    IF getSession(Registry, sid) = Undefined
    THEN Some("Session not found")
    ELSE Undefined

Prompt(sid) ==
    IF PromptError(sid) # Undefined
    THEN \* throw new Error(`Session ${params.sessionId} not found`)
         UNCHANGED <<sessions, aborted, pendingPrompts, connected, deferred,
                     chatSend, abortCalls, gw, stream>>
    ELSE LET runId == NextRunId
             reg == PromptRegistry(sid, runId)
         IN  /\ sessions' = reg.sessions
             /\ aborted' = reg.aborted
             /\ pendingPrompts' = MapSet(pendingPrompts, sid, PromptPending(sid, runId))
             /\ deferred' = deferred @@ (runId :> Unsettled)
             /\ chatSend' = chatSend @@ (runId :> PromptRequest(sid, runId))
             /\ gw' = gw @@ (runId :> "open")
             /\ stream' = MapSet(stream, sid, NoStream)
             /\ UNCHANGED <<connected, abortCalls>>


(***************************************************************************)
(* The chat.send RPC of a prompt call fails: the promise of                *)
(* gateway.request rejects and the .catch callback runs.  A request that   *)
(* succeeds runs no callback (prompt attaches no .then), so it is no step  *)
(* of the machine: "inflight" is a request that has not failed.            *)
(***************************************************************************)
RpcErrors == {"gateway not connected"}

\* this.pendingPrompts.delete(params.sessionId)
SendFailedPendingKept(sid) == pendingPrompts

SendFailedPending(sid) == MapDelete(pendingPrompts, sid)

\* clearActiveRun(params.sessionId)
SendFailedRegistry(sid) == clearActiveRun(Registry, sid)

\* reject(err), on the promise of the prompt call whose request failed
SendFailedDeferred(runId, err) ==
    [deferred EXCEPT ![runId] = Reject(@, <<"rpc error", err>>)]

ChatSendFails(runId, err) ==
    /\ runId \in DOMAIN chatSend
    /\ chatSend[runId].status = "inflight"
    /\ LET sid == chatSend[runId].sessionId
           reg == SendFailedRegistry(sid)
       IN  /\ chatSend' = [chatSend EXCEPT ![runId].status = "failed"]
           /\ pendingPrompts' = SendFailedPending(sid)
           /\ sessions' = reg.sessions
           /\ aborted' = reg.aborted
           /\ deferred' = SendFailedDeferred(runId, err)
    /\ UNCHANGED <<connected, abortCalls, gw, stream>>

(***************************************************************************)
(* cancel(params): up to the awaited chat.abort, and after it.             *)
(***************************************************************************)
\* cancelActiveRun(params.sessionId)
CancelRegistry(sid) == cancelActiveRun(Registry, sid)

Cancel(sid) ==
    IF getSession(Registry, sid) = Undefined
    THEN UNCHANGED <<sessions, aborted, pendingPrompts, connected, deferred,
                     chatSend, abortCalls, gw, stream>>
    ELSE LET reg == CancelRegistry(sid)
         IN  /\ sessions' = reg.sessions
             /\ aborted' = reg.aborted
             /\ abortCalls' = [abortCalls EXCEPT ![sid] = Append(@, sessions[sid].activeRunId)]
             /\ UNCHANGED <<pendingPrompts, connected, deferred, chatSend, gw, stream>>

\* a cancel that takes whatever PendingRequest the table holds
CancelPendingOfAny(sid) ==
    IF pendingPrompts # <<>>
    THEN Some(pendingPrompts[CHOOSE s \in DOMAIN pendingPrompts : TRUE])
    ELSE Undefined

\* the PendingRequest that cancel finds after the await
CancelPending(sid) ==
    IF sid \in DOMAIN pendingPrompts THEN Some(pendingPrompts[sid]) ELSE Undefined

\* a cancel that lets the failure of chat.abort escape: nothing is resolved
CancelDeferredIfAborted(pending, abortOk) ==
    IF abortOk
    THEN [deferred EXCEPT ![pending.idempotencyKey] = Resolve(@, <<"stopReason", "cancelled">>)]
    ELSE deferred

\* pending.resolve({ stopReason: "cancelled" }), after chat.abort returned or
\* its failure was caught
CancelDeferred(pending, abortOk) ==
    [deferred EXCEPT ![pending.idempotencyKey] = Resolve(@, <<"stopReason", "cancelled">>)]

\* a cancel that resolves the PendingRequest and leaves it in the table
CancelResumePendingKept(sid) == pendingPrompts

\* this.pendingPrompts.delete(params.sessionId), after chat.abort
CancelResumePending(sid) == MapDelete(pendingPrompts, sid)

\* chat.abort returned (abortOk) or threw (caught and logged)
CancelResume(sid, abortOk) ==
    /\ sid \in DOMAIN abortCalls
    /\ abortCalls[sid] # <<>>
    /\ abortCalls' = [abortCalls EXCEPT ![sid] = Tail(@)]
    /\ LET pending == CancelPending(sid)
       IN  IF pending # Undefined
           THEN /\ pendingPrompts' = CancelResumePending(sid)
                /\ deferred' = CancelDeferred(The(pending), abortOk)
           ELSE UNCHANGED <<pendingPrompts, deferred>>
    /\ UNCHANGED <<sessions, aborted, connected, chatSend, gw, stream>>

(***************************************************************************)
(* handleGatewayDisconnect(reason)                                         *)
(***************************************************************************)
Reasons == {"1006: abnormal closure", "1012: service restart"}

\* pending.reject(new Error(`Gateway disconnected: ${reason}`)), for every entry
DisconnectDeferred(reason) ==
    [r \in DOMAIN deferred |->
        IF \E sid \in DOMAIN pendingPrompts : pendingPrompts[sid].idempotencyKey = r
        THEN Reject(deferred[r], <<"Gateway disconnected", reason>>)
        ELSE deferred[r]]

\* a disconnect that drops the sessions whose prompts it rejects
DisconnectRegistryDropping ==
    [Registry EXCEPT !.sessions = [sid \in DOMAIN sessions \ DOMAIN pendingPrompts |->
                                        sessions[sid]]]

\* clearActiveRun(sessionId), for every entry
DisconnectRegistry ==
    [Registry EXCEPT !.sessions = [sid \in DOMAIN sessions |->
        IF sid \in DOMAIN pendingPrompts
        THEN clearActiveRun(Registry, sid).sessions[sid]
        ELSE sessions[sid]]]

\* this.pendingPrompts.clear()
DisconnectPendingKept == pendingPrompts

DisconnectPending == <<>>

HandleGatewayDisconnect(reason) ==
    /\ connected' = FALSE
    /\ deferred' = DisconnectDeferred(reason)
    /\ sessions' = DisconnectRegistry.sessions
    /\ aborted' = DisconnectRegistry.aborted
    /\ pendingPrompts' = DisconnectPending
    /\ UNCHANGED <<chatSend, abortCalls, gw, stream>>


(***************************************************************************)
(* handleChatEvent(evt)                                                    *)
(***************************************************************************)
TerminalStates == {"final", "done", "error", "aborted"}

\* the states a chat payload carries; "started" stands for any other state
ChatStates == {"delta", "started"} \cup TerminalStates

\* a lookup that takes a PendingRequest whatever its session's key
findPendingOfAnyKey(sessionKey) ==
    IF DOMAIN pendingPrompts = {} THEN Undefined
    ELSE Some(pendingPrompts[CHOOSE sid \in DOMAIN pendingPrompts : TRUE])

findPendingBySessionKey(sessionKey) ==
    LET hits == {sid \in DOMAIN pendingPrompts :
                    /\ getSession(Registry, sid) # Undefined
                    /\ The(getSession(Registry, sid)).sessionKey = sessionKey}
    IN  IF hits = {} THEN Undefined
        ELSE Some(pendingPrompts[CHOOSE sid \in hits : TRUE])

\* a duplicate guard that compares all of what was sent, not its first characters
IsDuplicateWhole(sentText, newText) ==
    /\ Len(sentText) > 0
    /\ StartsWith(newText, sentText)

\* the duplicate guard: the new text repeats the start of what was sent
IsDuplicate(sentText, newText) ==
    /\ Len(sentText) > 0
    /\ StartsWith(newText, SliceTo(sentText, Min(DupPrefixLen, Len(sentText))))

\* a slice that starts one character early: it sends a character again
DeltaNewTextEarly(entry, fullText) ==
    SliceFrom(fullText, IF OrElse(entry.sentTextLength, 0) = 0
                        THEN 0 ELSE OrElse(entry.sentTextLength, 0) - 1)

\* fullText.slice(sentSoFar)
DeltaNewText(entry, fullText) == SliceFrom(fullText, OrElse(entry.sentTextLength, 0))

\* whether the delta is forwarded: it is longer than what was sent, and no duplicate
DeltaForwards(entry, fullText) ==
    /\ Len(fullText) > OrElse(entry.sentTextLength, 0)
    /\ ~IsDuplicate(OrElse(entry.sentText, <<>>), DeltaNewText(entry, fullText))

\* a delta that stores the new length and keeps the old sent text
DeltaEntryLengthOnly(entry, fullText) ==
    [entry EXCEPT !.sentTextLength = Some(Len(fullText))]

\* actualPending.sentTextLength = fullText.length; actualPending.sentText = fullText
DeltaEntry(entry, fullText) ==
    [entry EXCEPT !.sentTextLength = Some(Len(fullText)), !.sentText = Some(fullText)]

\* the record of a request's stream after one delta was handled for it
Streamed(st, fullText, forwarded) ==
    [chunks    |-> st.chunks \o forwarded,
     lastFull  |-> fullText,
     extending |-> st.extending /\ StartsWith(fullText, st.lastFull)]

\* state -> StopReason
StopReasonErrorAsEndTurn(state) ==
    IF state = "aborted" THEN "cancelled" ELSE "end_turn"

StopReasonOf(state) ==
    IF state = "final" \/ state = "done" THEN "end_turn"
    ELSE IF state = "aborted" THEN "cancelled"
    ELSE "refusal"

\* a terminal event that leaves the PendingRequest in the table
TerminalPendingKept(sessionId) == pendingPrompts

\* this.pendingPrompts.delete(sessionId)
TerminalPending(sessionId) == MapDelete(pendingPrompts, sessionId)

\* clearActiveRun(sessionId)
TerminalRegistryKept(sessionId) == Registry

TerminalRegistry(sessionId) == clearActiveRun(Registry, sessionId)

\* pending.resolve({ stopReason })
TerminalDeferred(pending, state) ==
    [deferred EXCEPT ![pending.idempotencyKey] =
        Resolve(@, <<"stopReason", StopReasonOf(state)>>)]

HandleChatEvent(sessionKey, state, messageData) ==
    LET found == IF sessionKey = Undefined THEN Undefined
                 ELSE findPendingBySessionKey(The(sessionKey))
    IN  /\ UNCHANGED <<connected, chatSend, abortCalls>>
        /\ IF found = Undefined
           THEN UNCHANGED <<sessions, aborted, pendingPrompts, deferred, stream>>
           ELSE LET pending == The(found)
                    sessionId == pending.sessionId
                IN  IF state = "delta" /\ messageData # Undefined
                    THEN LET fullText == The(messageData)
                             actualPending == pendingPrompts[sessionId]
                             forwards == DeltaForwards(actualPending, fullText)
                             newText == DeltaNewText(actualPending, fullText)
                         IN  /\ pendingPrompts' =
                                    IF forwards
                                    THEN MapSet(pendingPrompts, sessionId,
                                                DeltaEntry(actualPending, fullText))
                                    ELSE pendingPrompts
                             /\ stream' = [stream EXCEPT ![sessionId] =
                                    Streamed(@, fullText,
                                             IF forwards THEN newText ELSE <<>>)]
                             /\ UNCHANGED <<sessions, aborted, deferred>>
                    ELSE IF state \in TerminalStates
                    THEN LET reg == TerminalRegistry(sessionId)
                         IN  /\ pendingPrompts' = TerminalPending(sessionId)
                             /\ sessions' = reg.sessions
                             /\ aborted' = reg.aborted
                             /\ deferred' = TerminalDeferred(pending, state)
                             /\ UNCHANGED stream
                    ELSE UNCHANGED <<sessions, aborted, pendingPrompts, deferred,
                                     stream>>

(***************************************************************************)
(* The Gateway: it streams a run it was sent as chat events that carry the *)
(* run's session key, deltas and other states first and one terminal       *)
(* state last.                                                             *)
(***************************************************************************)
GatewayChatEvent(runId, state, messageData) ==
    /\ runId \in DOMAIN gw
    /\ gw[runId] = "open"
    /\ gw' = IF state \in TerminalStates THEN [gw EXCEPT ![runId] = "ended"] ELSE gw
    /\ HandleChatEvent(Some(chatSend[runId].sessionKey), state, messageData)

\* a chat event without a session key, or with the key of no session of this bridge
GatewayStrayEvent(sessionKey, state) ==
    /\ HandleChatEvent(sessionKey, state, Undefined)
    /\ UNCHANGED gw

StrayKeys == {Undefined, Some(SessionKeyOf(UnknownSession))}

Messages(texts) == {Undefined} \cup {Some(t) : t \in texts}

(***************************************************************************)
(* The session machine: every operation, one short text.                   *)
(***************************************************************************)
Texts == {<<"a">>}

KnownSessions == DOMAIN sessions

Next ==
    \/ ~connected /\ Start /\ UNCHANGED <<callVars, loopVars>>
    \/ \E cwd \in Cwds :
            NextSessionId <= MaxSessions /\ NewSession(cwd)
                /\ UNCHANGED <<callVars, loopVars>>
    \/ \E sid \in KnownSessions :
            NextRunId <= MaxRuns /\ Prompt(sid) /\ UNCHANGED <<callVars, loopVars>>
    \/ \E runId \in 1..MaxRuns, err \in RpcErrors :
            ChatSendFails(runId, err) /\ UNCHANGED <<callVars, loopVars>>
    \/ \E sid \in KnownSessions :
            Len(abortCalls[sid]) < MaxCancels /\ Cancel(sid)
                /\ UNCHANGED <<callVars, loopVars>>
    \/ \E sid \in KnownSessions, abortOk \in BOOLEAN :
            CancelResume(sid, abortOk) /\ UNCHANGED <<callVars, loopVars>>
    \/ \E runId \in 1..MaxRuns, state \in ChatStates, m \in Messages(Texts) :
            GatewayChatEvent(runId, state, m) /\ UNCHANGED <<callVars, loopVars>>
    \/ \E sessionKey \in StrayKeys, state \in ChatStates :
            GatewayStrayEvent(sessionKey, state) /\ UNCHANGED <<callVars, loopVars>>
    \/ \E reason \in Reasons :
            HandleGatewayDisconnect(reason) /\ UNCHANGED <<callVars, loopVars>>

Spec == Init /\ [][Next]_vars


(***************************************************************************)
(* The call machine: the calls of the front protocol with session ids the  *)
(* bridge knows and ids it does not know, and what each call gives its     *)
(* caller.  A prompt call that passed its session check gives its caller   *)
(* the promise recorded in deferred.                                       *)
(***************************************************************************)
\* returned, once a call of op on sid has given outcome to its caller
Result(op, sid, outcome) == [returned EXCEPT ![op] = Some(<<sid, outcome>>)]

PromptCall(sid) ==
    /\ Prompt(sid)
    /\ returned' = IF PromptError(sid) # Undefined
                   THEN Result("prompt", sid, The(PromptError(sid)))
                   ELSE returned
    /\ UNCHANGED <<modeCalls, toolCalls>>

\* cancel on a session the bridge does not know returns at once; on a known
\* session it returns after the awaited chat.abort
CancelCall(sid) ==
    /\ Cancel(sid)
    /\ returned' = IF getSession(Registry, sid) = Undefined
                   THEN Result("cancel", sid, "ok")
                   ELSE returned
    /\ UNCHANGED <<modeCalls, toolCalls>>

\* the failure of chat.abort is caught and logged: cancel returns normally
CancelResult(abortOk) == "ok"

CancelResumeCall(sid, abortOk) ==
    /\ CancelResume(sid, abortOk)
    /\ returned' = Result("cancel", sid, CancelResult(abortOk))
    /\ UNCHANGED <<modeCalls, toolCalls>>

\* the error setSessionMode throws before it does anything, if any
SetSessionModeError(sid) ==
    IF getSession(Registry, sid) = Undefined
    THEN Some("Session not found")
    ELSE Undefined

\* a setSessionMode that patches before it looks the session up
SetSessionModePatchesUnchecked(sid, modeId) == modeId # ""

\* whether the call issues sessions.patch: if (modeId), past the session check
SetSessionModePatches(sid, modeId) ==
    SetSessionModeError(sid) = Undefined /\ modeId # ""

\* the sessions.patch request
SetSessionModeRequest(sid, modeId) ==
    [sessionId |-> sid, thinkingLevel |-> modeId, status |-> "inflight"]

\* setSessionMode(params), up to the awaited sessions.patch
SetSessionModeCall(sid, modeId) ==
    /\ modeCalls' = IF SetSessionModePatches(sid, modeId)
                    THEN Append(modeCalls, SetSessionModeRequest(sid, modeId))
                    ELSE modeCalls
    /\ returned' = IF SetSessionModeError(sid) # Undefined
                   THEN Result("setSessionMode", sid, The(SetSessionModeError(sid)))
                   ELSE IF modeId # ""
                        THEN returned
                        ELSE Result("setSessionMode", sid, "ok")
    /\ UNCHANGED <<translatorVars, toolCalls>>

\* a setSessionMode that lets the failure of sessions.patch escape
SetSessionModeResultStrict(patchOk) == IF patchOk THEN "ok" ELSE "rpc error"

\* return {}, after sessions.patch returned or its failure was caught
SetSessionModeResult(patchOk) == "ok"

\* sessions.patch returned (patchOk) or threw (caught and logged)
SetSessionModeResume(i, patchOk) ==
    /\ i \in 1..Len(modeCalls)
    /\ modeCalls[i].status = "inflight"
    /\ modeCalls' = [modeCalls EXCEPT ![i].status = IF patchOk THEN "ok" ELSE "failed"]
    /\ returned' = Result("setSessionMode", modeCalls[i].sessionId,
                          SetSessionModeResult(patchOk))
    /\ UNCHANGED <<translatorVars, toolCalls>>

\* the session ids of the calls: UnknownSession and the ids newSession gives out
CallIds == UnknownSession..CallSessions

\* "" is the modeId that if (modeId) takes for absent
ModeIds == {"", "high"}

\* the chat events of the call machine carry no message text
CallTexts == {}

CallReasons == {"1006: abnormal closure"}

NextCalls ==
    \/ ~connected /\ Start /\ UNCHANGED <<callVars, loopVars>>
    \/ \E cwd \in Cwds :
            NextSessionId <= CallSessions /\ NewSession(cwd)
                /\ UNCHANGED <<callVars, loopVars>>
    \/ \E sid \in CallIds :
            NextRunId <= CallRuns /\ PromptCall(sid) /\ UNCHANGED loopVars
    \/ \E runId \in 1..CallRuns, err \in RpcErrors :
            ChatSendFails(runId, err) /\ UNCHANGED <<callVars, loopVars>>
    \/ \E sid \in CallIds :
            /\ sid \in KnownSessions => Len(abortCalls[sid]) < CallCancels
            /\ CancelCall(sid)
            /\ UNCHANGED loopVars
    \/ \E sid \in KnownSessions, abortOk \in BOOLEAN :
            CancelResumeCall(sid, abortOk) /\ UNCHANGED loopVars
    \/ \E sid \in CallIds, modeId \in ModeIds :
            Len(modeCalls) < CallModes /\ SetSessionModeCall(sid, modeId)
                /\ UNCHANGED loopVars
    \/ \E i \in 1..CallModes, patchOk \in BOOLEAN :
            SetSessionModeResume(i, patchOk) /\ UNCHANGED loopVars
    \/ \E runId \in 1..CallRuns, state \in ChatStates, m \in Messages(CallTexts) :
            GatewayChatEvent(runId, state, m) /\ UNCHANGED <<callVars, loopVars>>
    \/ \E reason \in CallReasons :
            HandleGatewayDisconnect(reason) /\ UNCHANGED <<callVars, loopVars>>

SpecCalls == Init /\ [][NextCalls]_vars

(***************************************************************************)
(* serveAcpGw: the Gateway clients it creates, their hooks, and the         *)
(* reconnect timer.  A started client calls its hooks whenever its socket  *)
(* opens or closes, so a hook of any client started so far can run at any  *)
(* time.                                                                   *)
(***************************************************************************)
RECONNECT_DELAY_MS == 2000

MAX_RECONNECT_ATTEMPTS == 5

\* the close codes the onClose hook is called with
CloseCodes == {1000, 1001, 1006}

\* `${code}: ${reason}`
CloseText(code) ==
    CASE code = 1000 -> "1000: normal closure"
      [] code = 1001 -> "1001: going away"
      [] OTHER -> "1006: abnormal closure"

\* the body of serveAcpGw: the first client is created, the agent is created
\* and started, the client is started
ServeAcpGw ==
    /\ bridge.clients = 0
    /\ bridge' = [bridge EXCEPT !.clients = 1]
    /\ Start

\* a delay that shrinks as the attempt number grows
ReconnectDelayShrinking(attempts) ==
    RECONNECT_DELAY_MS * (MAX_RECONNECT_ATTEMPTS + 1 - attempts)

\* const delay = RECONNECT_DELAY_MS * reconnectAttempts
ReconnectDelay(attempts) == RECONNECT_DELAY_MS * attempts

\* reconnectAttempts++ and setTimeout(..., delay): the closure and the
\* runtime's pending timers after them
ArmReconnectTimer ==
    LET delay == ReconnectDelay(bridge.reconnectAttempts + 1)
    IN  [bridge EXCEPT
            !.reconnectAttempts = @ + 1,
            !.reconnectTimer = Some(delay),
            !.pendingTimers = Append(@, delay),
            !.delays = Append(@, delay),
            !.scheduled = "armed"]

\* a scheduleReconnect that does not look at the pending timer
ScheduleReconnectRearming ==
    IF bridge.reconnectAttempts >= MAX_RECONNECT_ATTEMPTS
    THEN [bridge EXCEPT !.scheduled = "gave up"]
    ELSE ArmReconnectTimer

\* a scheduleReconnect that does not look at the attempt counter
ScheduleReconnectUnlimited ==
    IF bridge.reconnectTimer # Undefined
    THEN [bridge EXCEPT !.scheduled = "timer pending"]
    ELSE ArmReconnectTimer

\* scheduleReconnect(): the closure after the call
ScheduleReconnect ==
    IF bridge.reconnectTimer # Undefined
    THEN [bridge EXCEPT !.scheduled = "timer pending"]
    ELSE IF bridge.reconnectAttempts >= MAX_RECONNECT_ATTEMPTS
         THEN [bridge EXCEPT !.scheduled = "gave up"]
         ELSE ArmReconnectTimer

\* a handshake that leaves the attempt counter alone
HelloOkCounterKept == bridge

\* onHelloOk: reconnectAttempts = 0
HelloOkCounter == [bridge EXCEPT !.reconnectAttempts = 0, !.delays = <<>>]

\* onHelloOk of a started client
GatewayHelloOk ==
    /\ bridge.clients > 0
    /\ bridge' = HelloOkCounter
    /\ HandleGatewayReconnect

\* an onClose that takes only code 1000 for a final close
RetriesCloseBut1000(code) == code # 1000

\* onClose: if (code !== 1000 && code !== 1001)
RetriesClose(code) == code # 1000 /\ code # 1001

\* onClose(code, reason) of a started client
GatewayClose(code) ==
    /\ bridge.clients > 0
    /\ HandleGatewayDisconnect(CloseText(code))
    /\ bridge' = IF RetriesClose(code) THEN ScheduleReconnect ELSE bridge

\* the callback of a pending timer: reconnectTimer = null, a new client is
\* created, handed to the agent and started
ReconnectTimerFires(i) ==
    /\ i \in 1..Len(bridge.pendingTimers)
    /\ bridge' = [bridge EXCEPT
                    !.reconnectTimer = Undefined,
                    !.pendingTimers = SubSeq(@, 1, i - 1) \o SubSeq(@, i + 1, Len(@)),
                    !.clients = @ + 1]
    /\ UNCHANGED translatorVars

\* onEvent of a started client
GatewayEvent(runId, state, messageData) ==
    /\ bridge.clients > 0
    /\ GatewayChatEvent(runId, state, messageData)

NextBridge ==
    \/ ServeAcpGw /\ UNCHANGED <<callVars, monitor, tau>>
    \/ GatewayHelloOk /\ UNCHANGED <<callVars, monitor, tau>>
    \/ \E code \in CloseCodes : GatewayClose(code) /\ UNCHANGED <<callVars, monitor, tau>>
    \/ \E i \in 1..MAX_RECONNECT_ATTEMPTS :
            bridge.clients < BridgeClients /\ ReconnectTimerFires(i)
                /\ UNCHANGED <<callVars, monitor, tau>>
    \/ \E runId \in 1..BridgeRuns, state \in ChatStates, m \in Messages(CallTexts) :
            GatewayEvent(runId, state, m) /\ UNCHANGED <<callVars, loopVars>>
    \/ \E cwd \in Cwds :
            /\ bridge.clients > 0
            /\ NextSessionId <= BridgeSessions
            /\ NewSession(cwd)
            /\ UNCHANGED <<callVars, loopVars>>
    \/ \E sid \in UnknownSession..BridgeSessions :
            /\ bridge.clients > 0
            /\ NextRunId <= BridgeRuns
            /\ PromptCall(sid)
            /\ UNCHANGED loopVars
    \/ \E runId \in 1..BridgeRuns, err \in RpcErrors :
            ChatSendFails(runId, err) /\ UNCHANGED <<callVars, loopVars>>

SpecBridge == Init /\ [][NextBridge]_vars

(***************************************************************************)
(* monitorWebProvider: the connection loop of the web provider.  Its steps  *)
(* are the parts of the loop between two awaits: the listener factory, the  *)
(* race of the listener's close with the abort signal, and the backoff     *)
(* sleep.                                                                  *)
(***************************************************************************)
RECURSIVE Pow(_, _)
Pow(b, n) == IF n = 0 THEN 1 ELSE b * Pow(b, n - 1)

\* the reconnect policies of the calls: retry forever, or up to WebMaxAttempts
ReconnectPolicy(maxAttempts) ==
    [baseDelayMs |-> 1000, multiplier |-> 2, maxAttempts |-> maxAttempts]

\* computeBackoff(policy, attemptNumber): exponential growth from baseDelayMs
computeBackoff(policy, attemptNumber) ==
    policy.baseDelayMs * Pow(policy.multiplier, attemptNumber - 1)

\* stopRequested()
StopRequested == monitor.aborted

\* the top of the while loop: if (stopRequested()) break, else the listener
\* factory is awaited
LoopTop(m) ==
    IF StopRequested
    THEN [m EXCEPT !.pc = "done", !.exit = "stopped"]
    ELSE [m EXCEPT !.pc = "connecting"]

\* monitorWebProvider(...), up to the first await
MonitorWebProvider(keepAlive, maxAttempts) ==
    /\ monitor.pc = "idle"
    /\ monitor' = LoopTop([monitor EXCEPT !.keepAlive = keepAlive,
                                          !.maxAttempts = maxAttempts])

\* the abort signal fires
MonitorAbort ==
    /\ ~monitor.aborted
    /\ monitor' = [monitor EXCEPT !.aborted = TRUE]

\* handleSigint, registered while the loop runs
MonitorSigint ==
    /\ monitor.pc \notin {"idle", "done"}
    /\ ~monitor.sigintStop
    /\ monitor' = [monitor EXCEPT !.sigintStop = TRUE]

\* the listener factory returned a listener: the connection is up
ListenerReady ==
    /\ monitor.pc = "connecting"
    /\ monitor' = IF ~monitor.keepAlive
                  THEN [monitor EXCEPT !.pc = "done", !.exit = "not kept alive"]
                  ELSE [monitor EXCEPT !.pc = "listening"]

\* if (uptimeMs > heartbeatSeconds * 1000) reconnectAttempts = 0
HealthyReset(m, healthy) ==
    IF healthy THEN [m EXCEPT !.reconnectAttempts = 0, !.delays = <<>>] ELSE m

\* a limit check that takes maxAttempts = 0 for a limit of no attempts
MaxAttemptsReachedAtZero(maxAttempts, attempts) == attempts >= maxAttempts

\* reconnectPolicy.maxAttempts > 0 && reconnectAttempts >= reconnectPolicy.maxAttempts
MaxAttemptsReached(maxAttempts, attempts) == maxAttempts > 0 /\ attempts >= maxAttempts

\* reconnectAttempts += 1, the maxAttempts check, computeBackoff and the sleep
RetryOrGiveUp(m) ==
    LET attempts == m.reconnectAttempts + 1
        delay == computeBackoff(ReconnectPolicy(m.maxAttempts), attempts)
    IN  IF MaxAttemptsReached(m.maxAttempts, attempts)
        THEN [m EXCEPT !.reconnectAttempts = attempts, !.pc = "done",
                       !.exit = "max attempts reached"]
        ELSE [m EXCEPT !.reconnectAttempts = attempts, !.pc = "sleeping",
                       !.delays = Append(@, delay)]

\* the race was won by the listener's close (reason) or by the abort signal
\* ("aborted"); healthy: the connection was up longer than the heartbeat
\* interval
ConnectionEnded(abortWon, loggedOut, healthy) ==
    /\ monitor.pc = "listening"
    /\ abortWon => monitor.aborted
    /\ LET m == HealthyReset(monitor, healthy)
       IN  monitor' =
             IF StopRequested \/ monitor.sigintStop \/ abortWon
             THEN [m EXCEPT !.pc = "done", !.exit = "stopped"]
             ELSE IF loggedOut
                  THEN [m EXCEPT !.pc = "done", !.exit = "logged out"]
                  ELSE RetryOrGiveUp(m)

\* the backoff sleep ended: it returned (the loop goes on) or it threw because
\* the abort signal fired (break)
SleepEnded(threw) ==
    /\ monitor.pc = "sleeping"
    /\ threw => monitor.aborted
    /\ monitor' = IF threw
                  THEN [monitor EXCEPT !.pc = "done", !.exit = "stopped"]
                  ELSE LoopTop(monitor)

(***************************************************************************)
(* The reconnect machine: the loop of serveAcpGw and the loop of           *)
(* monitorWebProvider, without sessions.                                   *)
(***************************************************************************)
WebPolicies == {0, WebMaxAttempts}

NextReconnect ==
    \/ ServeAcpGw /\ UNCHANGED <<callVars, monitor, tau>>
    \/ GatewayHelloOk /\ UNCHANGED <<callVars, monitor, tau>>
    \/ \E code \in CloseCodes : GatewayClose(code) /\ UNCHANGED <<callVars, monitor, tau>>
    \/ \E i \in 1..MAX_RECONNECT_ATTEMPTS :
            bridge.clients < MaxClients /\ ReconnectTimerFires(i)
                /\ UNCHANGED <<callVars, monitor, tau>>
    \/ \E keepAlive \in BOOLEAN, maxAttempts \in WebPolicies :
            MonitorWebProvider(keepAlive, maxAttempts)
                /\ UNCHANGED <<translatorVars, callVars, bridge, tau>>
    \/ MonitorAbort /\ UNCHANGED <<translatorVars, callVars, bridge, tau>>
    \/ MonitorSigint /\ UNCHANGED <<translatorVars, callVars, bridge, tau>>
    \/ ListenerReady /\ UNCHANGED <<translatorVars, callVars, bridge, tau>>
    \/ \E abortWon \in BOOLEAN, loggedOut \in BOOLEAN, healthy \in BOOLEAN :
            /\ monitor.reconnectAttempts < WebAttempts
            /\ ConnectionEnded(abortWon, loggedOut, healthy)
            /\ UNCHANGED <<translatorVars, callVars, bridge, tau>>
    \/ \E threw \in BOOLEAN :
            SleepEnded(threw) /\ UNCHANGED <<translatorVars, callVars, bridge, tau>>

SpecReconnect == Init /\ [][NextReconnect]_vars

(***************************************************************************)
(* handleAgentEvent(evt): the tool events of the Gateway's agent stream.    *)
(* An absent payload field is Undefined.                                    *)
(***************************************************************************)
\* a result phase that never reports an error
ToolUpdateStatusCompleted(isError) == "completed"

\* status: isError ? "error" : "completed"
ToolUpdateStatus(isError) == IF isError = Some(TRUE) THEN "error" ELSE "completed"

\* the sessionUpdate of a tool event for a session, if any
ToolNotification(sessionId, data) ==
    IF data.toolCallId = Undefined
    THEN Undefined
    ELSE IF data.phase = "start"
    THEN Some([sessionId |-> sessionId, sessionUpdate |-> "tool_call",
               toolCallId |-> The(data.toolCallId),
               title |-> OrElse(data.name, "tool"), status |-> "running"])
    ELSE IF data.phase = "result"
    THEN Some([sessionId |-> sessionId, sessionUpdate |-> "tool_call_update",
               toolCallId |-> The(data.toolCallId),
               title |-> "", status |-> ToolUpdateStatus(data.isError)])
    ELSE Undefined

\* what handleAgentEvent sends to the client for an event, if anything
AgentNotification(runId, stream_, data) ==
    IF runId = Undefined \/ data = Undefined
    THEN Undefined
    ELSE LET session == getSessionByRunId(Registry, The(runId))
         IN  IF session = Undefined
             THEN Undefined
             ELSE IF stream_ = "tool"
                  THEN ToolNotification(The(session).sessionId, The(data))
                  ELSE Undefined

HandleAgentEvent(runId, stream_, data) ==
    /\ toolCalls' = IF AgentNotification(runId, stream_, data) = Undefined
                    THEN toolCalls
                    ELSE Append(toolCalls, The(AgentNotification(runId, stream_, data)))
    /\ UNCHANGED <<translatorVars, returned, modeCalls>>

\* the payloads of the agent events: runId absent, of a prompt, or of no prompt
AgentRunIds == {Undefined} \cup {Some(r) : r \in 1..(ToolRuns + 1)}

AgentStreams == {"tool", "assistant"}

\* payload.data: absent, a start with and without tool name, a result with
\* and without isError, a phase that is neither, each of the three phases
\* without tool-call identifier
ToolData ==
    {Undefined}
    \cup {Some([phase |-> "start", name |-> n, toolCallId |-> Some("call-1"),
                isError |-> Undefined]) : n \in {Undefined, Some("bash")}}
    \cup {Some([phase |-> "result", name |-> Some("bash"), toolCallId |-> Some("call-1"),
                isError |-> e]) : e \in {Undefined, Some(TRUE), Some(FALSE)}}
    \cup {Some([phase |-> ph, name |-> Some("bash"), toolCallId |-> Undefined,
                isError |-> Undefined]) : ph \in {"start", "result", "update"}}
    \cup {Some([phase |-> "update", name |-> Some("bash"), toolCallId |-> Some("call-1"),
                isError |-> Undefined])}

\* params.cwd of the tool machine's newSession calls
ToolCwds == {"/tmp/x", "/tmp/y"}

NextTools ==
    \/ \E cwd \in ToolCwds :
            NextSessionId <= ToolSessions /\ NewSession(cwd)
                /\ UNCHANGED <<callVars, loopVars>>
    \/ \E sid \in KnownSessions :
            NextRunId <= ToolRuns /\ Prompt(sid) /\ UNCHANGED <<callVars, loopVars>>
    \/ \E runId \in AgentRunIds, stream_ \in AgentStreams, data \in ToolData :
            Len(toolCalls) < ToolUpdates /\ HandleAgentEvent(runId, stream_, data)
                /\ UNCHANGED loopVars
    \/ \E runId \in 1..ToolRuns, state \in ChatStates, m \in Messages(CallTexts) :
            GatewayChatEvent(runId, state, m) /\ UNCHANGED <<callVars, loopVars>>

SpecTools == Init /\ [][NextTools]_vars

(***************************************************************************)
(* The client machine: the hooks of serveAcpGw told apart by the client    *)
(* that calls them.  A client that the timer callback has replaced is not  *)
(* stopped by serveAcpGw, and its hooks are the same closures as those of  *)
(* the latest client.                                                      *)
(***************************************************************************)
ClientsMax == 3
ClientSessions == 1
ClientRuns == 2

\* onHelloOk, called by client
ClientHelloOk(client) ==
    /\ client \in 1..bridge.clients
    /\ bridge' = [HelloOkCounter EXCEPT !.up = @ \cup {client}]
    /\ HandleGatewayReconnect

\* onClose(code, reason), called by client
ClientClose(client, code) ==
    /\ client \in 1..bridge.clients
    /\ HandleGatewayDisconnect(CloseText(code))
    /\ bridge' = [(IF RetriesClose(code) THEN ScheduleReconnect ELSE bridge)
                    EXCEPT !.up = @ \ {client}]

\* the callback of a pending timer, with the runs of the new client told
\* apart from those of the clients before it
ClientTimerFires(i) ==
    /\ i \in 1..Len(bridge.pendingTimers)
    /\ bridge' = [bridge EXCEPT
                    !.reconnectTimer = Undefined,
                    !.pendingTimers = SubSeq(@, 1, i - 1) \o SubSeq(@, i + 1, Len(@)),
                    !.clients = @ + 1,
                    !.since = NextRunId]
    /\ UNCHANGED translatorVars

\* the latest client's connection is up
LatestUp == bridge.clients \in bridge.up

\* the runs whose chat.send went to the latest client
RunsOnLatest == {runId \in DOMAIN chatSend : runId >= bridge.since}

NextClients ==
    \/ ServeAcpGw /\ UNCHANGED <<callVars, monitor, tau>>
    \/ \E client \in 1..ClientsMax :
            ClientHelloOk(client) /\ UNCHANGED <<callVars, monitor, tau>>
    \/ \E client \in 1..ClientsMax, code \in CloseCodes :
            ClientClose(client, code) /\ UNCHANGED <<callVars, monitor, tau>>
    \/ \E i \in 1..MAX_RECONNECT_ATTEMPTS :
            bridge.clients < ClientsMax /\ ClientTimerFires(i)
                /\ UNCHANGED <<callVars, monitor, tau>>
    \/ \E cwd \in Cwds :
            /\ bridge.clients > 0
            /\ NextSessionId <= ClientSessions
            /\ NewSession(cwd)
            /\ UNCHANGED <<callVars, loopVars>>
    \/ \E sid \in KnownSessions :
            /\ bridge.clients > 0
            /\ NextRunId <= ClientRuns
            /\ Prompt(sid)
            /\ UNCHANGED <<callVars, loopVars>>

SpecClients == Init /\ [][NextClients]_vars

(***************************************************************************)
(* The Tau machine: one TauRpcClient, its prompt calls, the lines and the   *)
(* exit of its children, its timers, and resetPiRpc.  A prompt call is     *)
(* suspended once, on the write to the child's stdin; every other handler  *)
(* runs to its end.  calls[r] holds, for the r-th prompt call, where it    *)
(* stands (at), the child it wrote to, its timer and its promise.          *)
(***************************************************************************)
TauCalls == 3
TauChildren == 2
TauLines == 1

TauBusy == "tau rpc already handling a request"
TauWriteError == "write failed"
TauExited == "tau rpc exited"
TauTimedOut == "tau rpc timed out"

\* clearTimeout(this.pending.timer), a timer that is not cleared stays armed
ClearTimeoutNot(calls, r) == calls

\* clearTimeout(this.pending.timer)
ClearTimeout(calls, r) == [calls EXCEPT ![r].timer = "cleared"]

\* ensureChild(): the child after the call, a new one when there is none
EnsureChild == IF tau.child = 0 THEN tau.spawned + 1 ELSE tau.child

\* prompt(prompt, timeoutMs), up to the awaited write to the child's stdin
TauPrompt ==
    LET child == EnsureChild
    IN  /\ ~tau.released
        /\ tau' = [tau EXCEPT
                    !.child = child,
                    !.spawned = IF tau.child = 0 THEN @ + 1 ELSE @,
                    !.running = @ \cup {child},
                    !.calls = Append(@,
                        IF tau.pending # Undefined
                        THEN [at |-> "done", child |-> child, timer |-> "none",
                              promise |-> [state |-> "rejected", value |-> TauBusy]]
                        ELSE [at |-> "write", child |-> child, timer |-> "none",
                              promise |-> [state |-> "pending", value |-> ""]])]

\* prompt, from the callback of the write on: the write failed and the call
\* throws, or the timer is armed and the slot is filled
TauWritten(r, err) ==
    /\ r \in 1..Len(tau.calls)
    /\ tau.calls[r].at = "write"
    /\ tau' = IF err
              THEN [tau EXCEPT !.calls[r].at = "done",
                               !.calls[r].promise = Reject(@, TauWriteError)]
              ELSE [tau EXCEPT !.calls[r].at = "slot",
                               !.calls[r].timer = "armed",
                               !.pending = Some(r)]

\* handleLine(line), called for a line of the child's stdout; end tells that
\* the line is the assistant's message_end
TauLine(end) ==
    /\ tau.child # 0
    /\ tau.child \in tau.running
    /\ tau' = IF tau.pending = Undefined THEN tau
              ELSE IF ~end THEN [tau EXCEPT !.buffer = @ + 1]
              ELSE LET r == The(tau.pending)
                   IN  [tau EXCEPT
                          !.calls = [ClearTimeout(@, r) EXCEPT
                                        ![r].at = "done",
                                        ![r].promise = Resolve(@, "message_end")],
                          !.pending = Undefined,
                          !.buffer = 0]

\* dispose(), on the fields it is given
Dispose(t) ==
    [t EXCEPT !.killed = IF t.child # 0 /\ t.child \notin t.killed
                         THEN @ \cup {t.child} ELSE @,
              !.child = 0,
              !.buffer = 0]

\* the exit listener of child c
TauExit(c) ==
    /\ c \in tau.running
    /\ tau' = LET settled ==
                    IF tau.pending = Undefined THEN tau
                    ELSE LET r == The(tau.pending)
                         IN  [tau EXCEPT
                                !.calls = [ClearTimeout(@, r) EXCEPT
                                              ![r].at = "done",
                                              ![r].promise = Reject(@, TauExited)],
                                !.pending = Undefined]
              IN  [Dispose(settled) EXCEPT !.running = @ \ {c}]

\* the callback of the timer of call r
TauTimeout(r) ==
    /\ r \in 1..Len(tau.calls)
    /\ tau.calls[r].timer = "armed"
    /\ tau' = [tau EXCEPT
                !.pending = Undefined,
                !.calls[r].at = "done",
                !.calls[r].timer = "fired",
                !.calls[r].promise = Reject(@, TauTimedOut),
                !.killed = @ \cup {tau.calls[r].child}]

\* resetPiRpc(): the client is disposed and no later call reaches it
TauReset ==
    /\ ~tau.released
    /\ tau.spawned > 0
    /\ tau' = [Dispose(tau) EXCEPT !.released = TRUE]

gatewayVars == <<translatorVars, callVars, bridge, monitor>>

TauTimeoutStep(r) == TauTimeout(r) /\ UNCHANGED gatewayVars

NextTau ==
    \/ /\ Len(tau.calls) < TauCalls
       /\ tau.child = 0 => tau.spawned < TauChildren
       /\ TauPrompt
       /\ UNCHANGED gatewayVars
    \/ \E r \in 1..TauCalls, err \in BOOLEAN :
            TauWritten(r, err) /\ UNCHANGED gatewayVars
    \/ \E end \in BOOLEAN :
            /\ ~end => tau.buffer < TauLines
            /\ TauLine(end)
            /\ UNCHANGED gatewayVars
    \/ \E c \in 1..TauChildren : TauExit(c) /\ UNCHANGED gatewayVars
    \/ \E r \in 1..TauCalls : TauTimeoutStep(r)
    \/ TauReset /\ UNCHANGED gatewayVars

SpecTau ==
    /\ Init
    /\ [][NextTau]_vars
    /\ \A r \in 1..TauCalls : WF_vars(TauTimeoutStep(r))

(***************************************************************************)
(* The load machine: loadSession among the calls and events that create    *)
(* sessions, start runs, suspend cancels and settle prompts.               *)
(***************************************************************************)
\* a loadSession that answers like the calls that look their session up
LoadSessionErrorIfUnknown(sid) ==
    IF getSession(Registry, sid) = Undefined THEN "Session not found" ELSE "ok"

\* throw new Error("Session loading not implemented")
LoadSessionError(sid) == "Session loading not implemented"

\* loadSession(_params)
LoadSessionCall(sid) ==
    /\ returned' = Result("loadSession", sid, LoadSessionError(sid))
    /\ UNCHANGED <<translatorVars, modeCalls, toolCalls>>

LoadSessions == 2
LoadRuns == 1
LoadCancels == 1

NextLoad ==
    \/ ~connected /\ Start /\ UNCHANGED <<callVars, loopVars>>
    \/ \E cwd \in Cwds :
            NextSessionId <= LoadSessions /\ NewSession(cwd)
                /\ UNCHANGED <<callVars, loopVars>>
    \/ \E sid \in CallIds :
            NextRunId <= LoadRuns /\ PromptCall(sid) /\ UNCHANGED loopVars
    \/ \E sid \in CallIds :
            /\ sid \in KnownSessions => Len(abortCalls[sid]) < LoadCancels
            /\ CancelCall(sid)
            /\ UNCHANGED loopVars
    \/ \E sid \in KnownSessions, abortOk \in BOOLEAN :
            CancelResumeCall(sid, abortOk) /\ UNCHANGED loopVars
    \/ \E sid \in CallIds :
            LoadSessionCall(sid) /\ UNCHANGED loopVars
    \/ \E runId \in 1..LoadRuns, state \in ChatStates, m \in Messages(CallTexts) :
            GatewayChatEvent(runId, state, m) /\ UNCHANGED <<callVars, loopVars>>
    \/ \E reason \in CallReasons :
            HandleGatewayDisconnect(reason) /\ UNCHANGED <<callVars, loopVars>>

SpecLoad == Init /\ [][NextLoad]_vars

(***************************************************************************)
(* The settling machine: prompts that supersede one another on a session,  *)
(* with a Gateway that does not withhold the end of a session's latest run *)
(* for ever unless the connection is lost.                                 *)
(***************************************************************************)
LiveSessions == 1
LiveRuns == 2
LiveCancels == 1

\* the runs that the prompts of session sid started
RunsOf(sid) == {runId \in DOMAIN chatSend : chatSend[runId].sessionId = sid}

\* the run of the latest prompt of session sid
LatestRun(sid) == CHOOSE runId \in RunsOf(sid) : \A other \in RunsOf(sid) : other <= runId

\* the Gateway delivers a terminal chat event for the latest run of session
\* sid, or the connection is lost
TerminalOrLost(sid) ==
    \/ /\ RunsOf(sid) # {}
       /\ \E state \in TerminalStates :
            GatewayChatEvent(LatestRun(sid), state, Undefined)
       /\ UNCHANGED <<callVars, loopVars>>
    \/ \E reason \in CallReasons :
            HandleGatewayDisconnect(reason) /\ UNCHANGED <<callVars, loopVars>>

NextLive ==
    \/ ~connected /\ Start /\ UNCHANGED <<callVars, loopVars>>
    \/ \E cwd \in Cwds :
            NextSessionId <= LiveSessions /\ NewSession(cwd)
                /\ UNCHANGED <<callVars, loopVars>>
    \/ \E sid \in KnownSessions :
            NextRunId <= LiveRuns /\ Prompt(sid) /\ UNCHANGED <<callVars, loopVars>>
    \/ \E runId \in 1..LiveRuns, err \in RpcErrors :
            ChatSendFails(runId, err) /\ UNCHANGED <<callVars, loopVars>>
    \/ \E sid \in KnownSessions :
            Len(abortCalls[sid]) < LiveCancels /\ Cancel(sid)
                /\ UNCHANGED <<callVars, loopVars>>
    \/ \E sid \in KnownSessions, abortOk \in BOOLEAN :
            CancelResume(sid, abortOk) /\ UNCHANGED <<callVars, loopVars>>
    \/ \E runId \in 1..LiveRuns, state \in ChatStates, m \in Messages(Texts) :
            GatewayChatEvent(runId, state, m) /\ UNCHANGED <<callVars, loopVars>>
    \/ \E reason \in CallReasons :
            HandleGatewayDisconnect(reason) /\ UNCHANGED <<callVars, loopVars>>

SpecLive ==
    /\ Init
    /\ [][NextLive]_vars
    /\ \A sid \in 1..LiveSessions : WF_vars(TerminalOrLost(sid))

(***************************************************************************)
(* The isolation machine: two sessions with their prompts and cancels, and *)
(* a Gateway that sends chat events under the key of either session and    *)
(* tool events under any runId, at any time.                               *)
(***************************************************************************)
IsoSessions == 2
IsoRuns == 2
IsoCancels == 1
IsoUpdates == 1

\* payload.state of the chat events: a delta, a normal end and a failed end
IsoStates == {"delta", "final", "error"}

\* payload.data of the tool events: a start and a result, with and without
\* tool-call identifier
IsoData ==
    {data \in ToolData \ {Undefined} :
        /\ The(data).phase \in {"start", "result"}
        /\ The(data).name # Undefined
        /\ The(data).isError = Undefined}

\* a chat event that carries the session key of session sid
ChatEventFor(sid, state, messageData) ==
    /\ HandleChatEvent(Some(SessionKeyOf(sid)), state, messageData)
    /\ UNCHANGED gw

NextIso ==
    \/ \E cwd \in Cwds :
            NextSessionId <= IsoSessions /\ NewSession(cwd)
                /\ UNCHANGED <<callVars, loopVars>>
    \/ \E sid \in KnownSessions :
            NextRunId <= IsoRuns /\ Prompt(sid) /\ UNCHANGED <<callVars, loopVars>>
    \/ \E sid \in KnownSessions :
            Len(abortCalls[sid]) < IsoCancels /\ Cancel(sid)
                /\ UNCHANGED <<callVars, loopVars>>
    \/ \E sid \in KnownSessions, abortOk \in BOOLEAN :
            CancelResume(sid, abortOk) /\ UNCHANGED <<callVars, loopVars>>
    \/ \E sid \in KnownSessions, state \in IsoStates, m \in Messages(Texts) :
            ChatEventFor(sid, state, m) /\ UNCHANGED <<callVars, loopVars>>
    \/ \E runId \in AgentRunIds, stream_ \in AgentStreams, data \in IsoData :
            Len(toolCalls) < IsoUpdates /\ HandleAgentEvent(runId, stream_, data)
                /\ UNCHANGED loopVars

SpecIso == Init /\ [][NextIso]_vars

(***************************************************************************)
(* The streaming machine: one session, its prompts, and the Gateway's      *)
(* chat events with every short cumulative text and with texts longer than *)
(* the duplicate guard's prefix.                                           *)
(***************************************************************************)
\* a text one character longer than the guard's prefix
LongText == Rep("a", DupPrefixLen) \o <<"b">>

\* LongText followed by a repeat of its first DupPrefixLen characters only
LongRepeat == LongText \o Rep("a", DupPrefixLen)

\* LongText followed by text that differs within the first DupPrefixLen characters
LongFresh == LongText \o Rep("a", DupPrefixLen - 1) \o <<"b">>

StreamTexts == TextsUpTo(MaxLen) \cup {LongText, LongRepeat, LongFresh}

NextStream ==
    \/ \E cwd \in Cwds :
            NextSessionId <= StreamSessions /\ NewSession(cwd)
                /\ UNCHANGED <<callVars, loopVars>>
    \/ \E sid \in KnownSessions :
            NextRunId <= MaxRuns /\ Prompt(sid) /\ UNCHANGED <<callVars, loopVars>>
    \/ \E runId \in 1..MaxRuns, state \in ChatStates, m \in Messages(StreamTexts) :
            GatewayChatEvent(runId, state, m) /\ UNCHANGED <<callVars, loopVars>>

SpecStream == Init /\ [][NextStream]_vars

(***************************************************************************)
(* Claims.                                                                 *)
(***************************************************************************)

\* C1: every prompt call on a known session leaves exactly the new run
\* registered: the session's active-run slot and its PendingRequest both hold
\* the runId of this latest prompt (and no other session holds it), and a run
\* that the call replaced had its cancellation handle invoked in the same call,
\* before the new run was registered.
C1_LatestPromptWins ==
    [][\A sid \in DOMAIN sessions :
        Prompt(sid) =>
            /\ sessions'[sid].activeRunId = NextRunId
            /\ sessions'[sid].abortController = NextRunId
            /\ sid \in DOMAIN pendingPrompts'
            /\ pendingPrompts'[sid].idempotencyKey = NextRunId
            /\ \A other \in DOMAIN sessions' \ {sid} :
                    sessions'[other].activeRunId # NextRunId
            /\ \A other \in DOMAIN pendingPrompts' \ {sid} :
                    pendingPrompts'[other].idempotencyKey # NextRunId
            /\ sessions[sid].activeRunId # NoRun =>
                    sessions[sid].abortController \in aborted'
      ]_vars

\* C1 witness: a session whose second prompt replaced its first while the
\* first was still active: the first run's handle was invoked, its promise is
\* unsettled, and slot and PendingRequest hold the second run.
C1_Witness ==
    \E sid \in DOMAIN sessions :
        /\ sessions[sid].activeRunId = 2
        /\ sid \in DOMAIN pendingPrompts
        /\ pendingPrompts[sid].idempotencyKey = 2
        /\ chatSend[1].sessionId = sid
        /\ 1 \in aborted
        /\ deferred[1].state = "pending"
        /\ gw[1] = "open"


\* the PendingRequest a chat event of the run is handled for, if any
EntryFor(runId) == findPendingBySessionKey(chatSend[runId].sessionKey)

\* C2: while every delta handled for a request extended the one before it,
\* the concatenation of the chunks forwarded so far is a prefix of the latest
\* cumulative text; and a delta whose cumulative text is no longer than the
\* stored sent length forwards no chunk and leaves the request as it was.
C2_NeverResends ==
    /\ [](\A sid \in DOMAIN stream :
            stream[sid].extending => StartsWith(stream[sid].lastFull, stream[sid].chunks))
    /\ [][\A runId \in DOMAIN chatSend, t \in StreamTexts :
            (/\ GatewayChatEvent(runId, "delta", Some(t))
             /\ EntryFor(runId) # Undefined
             /\ Len(t) <= OrElse(The(EntryFor(runId)).sentTextLength, 0))
            => /\ pendingPrompts' = pendingPrompts
               /\ \A sid \in DOMAIN stream : stream'[sid].chunks = stream[sid].chunks
         ]_vars

\* C2 witness: two chunks were forwarded for one request, the second after a
\* delta that repeated the first cumulative text had been handled.
C2_Witness ==
    \E sid \in DOMAIN pendingPrompts :
        /\ stream[sid].extending
        /\ stream[sid].chunks = <<"a", "b", "b">>
        /\ stream[sid].lastFull = <<"a", "b", "b">>
        /\ pendingPrompts[sid].sentTextLength = Some(3)

\* C3: while every delta handled for a request extended the one before it,
\* the chunks forwarded add up to the latest cumulative text.
C3_ForwardsAllNewText ==
    \A sid \in DOMAIN stream :
        stream[sid].extending => stream[sid].chunks = stream[sid].lastFull

\* what a delta with cumulative text t would add to what the entry has sent
SuffixOf(entry, t) == SliceFrom(t, OrElse(entry.sentTextLength, 0))

\* the first 20 characters of what the entry has sent, or all when fewer
SentPrefixOf(entry) ==
    SubSeq(The(entry.sentText), 1, Min(20, Len(The(entry.sentText))))

\* the delta is dropped: the request and the forwarded chunks stay as they were
Dropped ==
    /\ pendingPrompts' = pendingPrompts
    /\ \A sid \in DOMAIN stream : stream'[sid].chunks = stream[sid].chunks

\* C4: a delta whose new suffix begins with the first 20 characters of the
\* text previously sent for the request (all of it when shorter) is dropped:
\* no chunk is forwarded, and the stored sent length and sent text are
\* unchanged. A request has a sent text once a chunk was forwarded for it.
C4_DuplicateDropped ==
    [][\A runId \in DOMAIN chatSend, t \in StreamTexts :
            (/\ GatewayChatEvent(runId, "delta", Some(t))
             /\ EntryFor(runId) # Undefined
             /\ The(EntryFor(runId)).sentText # Undefined
             /\ StartsWith(SuffixOf(The(EntryFor(runId)), t),
                           SentPrefixOf(The(EntryFor(runId)))))
            => Dropped
      ]_vars

\* C4 witness: after a text longer than 20 characters was sent, a delta whose
\* suffix repeats only its first 20 characters was handled and nothing more
\* was forwarded.
C4_Witness ==
    \E sid \in DOMAIN pendingPrompts :
        /\ pendingPrompts[sid].sentText = Some(LongText)
        /\ stream[sid].chunks = LongText
        /\ stream[sid].lastFull = LongRepeat

\* C5: a terminal chat event handled for a PendingRequest resolves its
\* deferred, never rejects it, with end_turn for final and done, cancelled for
\* aborted and refusal for error.
C5_TerminalOutcome ==
    [][\A runId \in DOMAIN chatSend, state \in TerminalStates, m \in Messages(Texts) :
            (GatewayChatEvent(runId, state, m) /\ EntryFor(runId) # Undefined)
            => LET key == The(EntryFor(runId)).idempotencyKey
                   stopReason == CASE state = "final" -> "end_turn"
                                   [] state = "done" -> "end_turn"
                                   [] state = "aborted" -> "cancelled"
                                   [] state = "error" -> "refusal"
               IN  deferred'[key] = [state |-> "resolved",
                                     value |-> <<"stopReason", stopReason>>]
      ]_vars

\* C5 witness: one prompt ended by an error event and resolved with refusal,
\* another ended by a final or done event and resolved with end_turn.
C5_Witness ==
    \E r1, r2 \in DOMAIN deferred :
        /\ deferred[r1] = [state |-> "resolved", value |-> <<"stopReason", "refusal">>]
        /\ deferred[r2] = [state |-> "resolved", value |-> <<"stopReason", "end_turn">>]
        /\ gw[r1] = "ended"
        /\ gw[r2] = "ended"

\* C6: a terminal chat event handled for a PendingRequest removes the request
\* from the table and clears the session's active run, so the session holds no
\* cancellation handle when the deferred is resolved; and a prompt for a session
\* that holds no cancellation handle invokes none: it takes no supersede path.
C6_TerminalClearsBeforeResolve ==
    [][/\ \A runId \in DOMAIN chatSend, state \in TerminalStates, m \in Messages(Texts) :
            (GatewayChatEvent(runId, state, m) /\ EntryFor(runId) # Undefined)
            => LET sid == The(EntryFor(runId)).sessionId
                   key == The(EntryFor(runId)).idempotencyKey
               IN  /\ sid \notin DOMAIN pendingPrompts'
                   /\ sessions'[sid].activeRunId = NoRun
                   /\ sessions'[sid].abortController = NoRun
                   /\ deferred'[key].state = "resolved"
       /\ \A sid \in DOMAIN sessions :
            (Prompt(sid) /\ sessions[sid].abortController = NoRun)
            => aborted' = aborted
      ]_vars

\* C6 witness: the first prompt of a session was resolved by a terminal event
\* and the second prompt of the session is active without any handle invoked.
C6_Witness ==
    \E sid \in DOMAIN pendingPrompts :
        /\ 2 \in DOMAIN chatSend
        /\ chatSend[1].sessionId = sid
        /\ deferred[1].state = "resolved"
        /\ gw[1] = "ended"
        /\ sessions[sid].activeRunId = 2
        /\ pendingPrompts[sid].idempotencyKey = 2
        /\ aborted = {}

\* C7: a Gateway disconnect with N outstanding PendingRequests rejects the
\* deferred of each with an error that carries the disconnect reason, clears
\* the active run of each of their sessions, marks the translator disconnected
\* and leaves the table empty.
C7_DisconnectRejectsAll ==
    [][\A reason \in Reasons :
            HandleGatewayDisconnect(reason)
            => /\ \A sid \in DOMAIN pendingPrompts :
                    /\ deferred[pendingPrompts[sid].idempotencyKey].state = "pending"
                    /\ deferred'[pendingPrompts[sid].idempotencyKey] =
                            [state |-> "rejected",
                             value |-> <<"Gateway disconnected", reason>>]
                    /\ sessions'[sid].activeRunId = NoRun
                    /\ sessions'[sid].abortController = NoRun
               /\ connected' = FALSE
               /\ pendingPrompts' = <<>>
      ]_vars

\* C7 witness: two sessions had a request outstanding, the Gateway went away,
\* and both deferreds are rejected with the same disconnect reason.
C7_Witness ==
    /\ ~connected
    /\ pendingPrompts = <<>>
    /\ 2 \in DOMAIN chatSend
    /\ chatSend[1].sessionId # chatSend[2].sessionId
    /\ deferred[1].state = "rejected"
    /\ deferred[1].value[1] = "Gateway disconnected"
    /\ deferred[2] = deferred[1]
    /\ \A sid \in DOMAIN sessions : sessions[sid].activeRunId = NoRun

\* C8 as claimed: when the chat.send request of a prompt fails, the prompt's
\* deferred is rejected with the RPC error and the session has no
\* PendingRequest and no active run afterwards.
C8_SendFailureRejects ==
    [][\A runId \in DOMAIN chatSend, err \in RpcErrors :
            ChatSendFails(runId, err)
            => /\ deferred'[runId] = [state |-> "rejected", value |-> <<"rpc error", err>>]
               /\ chatSend[runId].sessionId \notin DOMAIN pendingPrompts'
               /\ sessions'[chatSend[runId].sessionId].activeRunId = NoRun
      ]_vars

\* C8 amended: when the chat.send request of a prompt fails, the prompt's
\* deferred is rejected with the RPC error unless it was settled already, and
\* then it keeps its outcome; either way the session has no PendingRequest and
\* no active run afterwards.
C8_SendFailureRejectsUnsettled ==
    [][\A runId \in DOMAIN chatSend, err \in RpcErrors :
            ChatSendFails(runId, err)
            => /\ deferred[runId].state = "pending" =>
                    deferred'[runId] = [state |-> "rejected", value |-> <<"rpc error", err>>]
               /\ deferred[runId].state # "pending" => deferred'[runId] = deferred[runId]
               /\ chatSend[runId].sessionId \notin DOMAIN pendingPrompts'
               /\ sessions'[chatSend[runId].sessionId].activeRunId = NoRun
               /\ sessions'[chatSend[runId].sessionId].abortController = NoRun
      ]_vars

\* C8 witness: the only prompt of a session had its chat.send fail; its
\* deferred is rejected with the RPC error and the session is idle.
C8_Witness ==
    \E runId \in DOMAIN chatSend :
        /\ chatSend[runId].status = "failed"
        /\ deferred[runId].state = "rejected"
        /\ deferred[runId].value[1] = "rpc error"
        /\ chatSend[runId].sessionId \notin DOMAIN pendingPrompts
        /\ sessions[chatSend[runId].sessionId].activeRunId = NoRun
        /\ \A other \in DOMAIN chatSend \ {runId} :
                chatSend[other].sessionId # chatSend[runId].sessionId

\* C9 as claimed: a terminal chat event of one run settles the deferred of no
\* other prompt.
C9_StaleTerminalIgnored ==
    [][\A runId \in DOMAIN chatSend, state \in TerminalStates, m \in Messages(Texts) :
            GatewayChatEvent(runId, state, m)
            => \A other \in DOMAIN deferred \ {runId} : deferred'[other] = deferred[other]
      ]_vars

\* C10 as claimed: a cancel called while a run was active resolves that run's
\* deferred with cancelled when chat.abort has returned or failed.
C10_CancelResolvesCancelled ==
    [][\A sid \in DOMAIN sessions, abortOk \in BOOLEAN :
            (CancelResume(sid, abortOk) /\ Head(abortCalls[sid]) # NoRun)
            => deferred'[Head(abortCalls[sid])] =
                    [state |-> "resolved", value |-> <<"stopReason", "cancelled">>]
      ]_vars

\* C10 amended: a cancel called while a run is active invokes the run's
\* cancellation handle, clears the active run and issues chat.abort; when
\* chat.abort has returned or failed, the PendingRequest the session then holds,
\* if any, is removed and its deferred resolved with cancelled, and nothing
\* else is settled; the failure of chat.abort changes nothing of this.
C10_CancelResolvesHeldRequest ==
    [][\A sid \in DOMAIN sessions :
        /\ (Cancel(sid) /\ sessions[sid].activeRunId # NoRun)
            => /\ sessions[sid].abortController \in aborted'
               /\ sessions'[sid].activeRunId = NoRun
               /\ sessions'[sid].abortController = NoRun
               /\ Len(abortCalls'[sid]) = Len(abortCalls[sid]) + 1
               /\ deferred' = deferred
        /\ \A abortOk \in BOOLEAN :
            CancelResume(sid, abortOk)
            => /\ sid \notin DOMAIN pendingPrompts'
               /\ \A r \in DOMAIN deferred :
                    deferred'[r] =
                        IF sid \in DOMAIN pendingPrompts /\ pendingPrompts[sid].idempotencyKey = r
                        THEN [state |-> "resolved", value |-> <<"stopReason", "cancelled">>]
                        ELSE deferred[r]
      ]_vars

\* C10 witness: a run was cancelled, chat.abort has returned, and the run's
\* deferred is resolved with cancelled although the Gateway sent no terminal
\* event.
C10_Witness ==
    \E runId \in DOMAIN deferred :
        /\ deferred[runId] = [state |-> "resolved", value |-> <<"stopReason", "cancelled">>]
        /\ runId \in aborted
        /\ \A r \in DOMAIN gw : gw[r] = "open"
        /\ \A sid \in DOMAIN abortCalls : abortCalls[sid] = <<>>
        /\ sessions[chatSend[runId].sessionId].activeRunId = NoRun


\* C11: a cancel call on a session the bridge does not know, or on a known
\* session with no active run, changes nothing: no request to the Gateway is
\* issued (abortCalls), no deferred is settled, and no session or
\* PendingRequest changes.
C11_CancelWithoutRunIsNoOp ==
    [][\A sid \in CallIds :
          (/\ CancelCall(sid)
           /\ \/ getSession(Registry, sid) = Undefined
              \/ The(getSession(Registry, sid)).activeRunId = NoRun)
          => UNCHANGED translatorVars]_vars


\* the deferreds of the prompt calls made on the sessions other than sid
DeferredOfOthers(d, sid) ==
    [r \in {q \in DOMAIN d : chatSend[q].sessionId # sid} |-> d[r]]

\* the PendingRequests of the sessions other than sid
PendingOfOthers(p, sid) == [s \in DOMAIN p \ {sid} |-> p[s]]

\* the registry records of the sessions other than sid
SessionsOfOthers(s, sid) == [o \in DOMAIN s \ {sid} |-> s[o]]

\* C12: cancel calls made one after the other on a session with no active run
\* do not throw and leave the session as it was: the call leaves every
\* session, PendingRequest and deferred alone, and so does its part after the
\* awaited chat.abort when the session still holds no PendingRequest (no prompt
\* was made since), returning normally whether chat.abort succeeded or failed.
\* No part of any cancel call changes the active run, the PendingRequest or a
\* deferred of another session.
C12_RepeatedCancelHarmless ==
    [][\A sid \in DOMAIN sessions :
        /\ (CancelCall(sid) /\ sessions[sid].activeRunId = NoRun)
            => /\ UNCHANGED <<sessions, aborted, pendingPrompts, deferred>>
               /\ returned' = returned
        /\ \A abortOk \in BOOLEAN :
            (/\ CancelResumeCall(sid, abortOk)
             /\ Head(abortCalls[sid]) = NoRun
             /\ sid \notin DOMAIN pendingPrompts)
            => /\ UNCHANGED <<sessions, aborted, pendingPrompts, deferred>>
               /\ returned'["cancel"] = Some(<<sid, "ok">>)
        /\ (CancelCall(sid) \/ \E abortOk \in BOOLEAN : CancelResumeCall(sid, abortOk))
            => /\ SessionsOfOthers(sessions', sid) = SessionsOfOthers(sessions, sid)
               /\ PendingOfOthers(pendingPrompts', sid) = PendingOfOthers(pendingPrompts, sid)
               /\ DeferredOfOthers(deferred', sid) = DeferredOfOthers(deferred, sid)
      ]_vars

\* C12 witness: on a session that never had a prompt, one cancel call has
\* returned normally and the next one is suspended on chat.abort, while another
\* session holds a PendingRequest with an unsettled deferred and an active run.
C12_Witness ==
    \E sid \in DOMAIN sessions, other \in DOMAIN pendingPrompts :
        /\ other # sid
        /\ \A r \in DOMAIN chatSend : chatSend[r].sessionId # sid
        /\ returned["cancel"] = Some(<<sid, "ok">>)
        /\ abortCalls[sid] = <<NoRun>>
        /\ deferred[pendingPrompts[other].idempotencyKey] = Unsettled
        /\ sessions[other].activeRunId = pendingPrompts[other].idempotencyKey


\* C13: prompt and setSessionMode called with a sessionId the bridge does not
\* know fail with the session-not-found error, issue no request to the Gateway
\* (chatSend, modeCalls), create no PendingRequest and change no session.
C13_UnknownSessionRejected ==
    [][\A sid \in CallIds :
        getSession(Registry, sid) = Undefined
        => /\ PromptCall(sid)
                => /\ returned'["prompt"] = Some(<<sid, "Session not found">>)
                   /\ UNCHANGED <<translatorVars, modeCalls>>
           /\ \A modeId \in ModeIds :
                SetSessionModeCall(sid, modeId)
                => /\ returned'["setSessionMode"] = Some(<<sid, "Session not found">>)
                   /\ UNCHANGED <<translatorVars, modeCalls>>
      ]_vars

\* C13 witness: a prompt and a setSessionMode on ids the bridge does not know
\* have failed with the session-not-found error while a session of the bridge
\* holds a PendingRequest.
C13_Witness ==
    \E sid \in CallIds, other \in CallIds :
        /\ getSession(Registry, sid) = Undefined
        /\ getSession(Registry, other) = Undefined
        /\ returned["prompt"] = Some(<<sid, "Session not found">>)
        /\ returned["setSessionMode"] = Some(<<other, "Session not found">>)
        /\ pendingPrompts # <<>>


\* C14: setSessionMode on a session the bridge knows returns normally, at once
\* when no mode is given and otherwise when sessions.patch has returned or
\* failed; no part of the call changes a session's active run or a
\* PendingRequest, or settles a deferred.
C14_SetSessionModeAlwaysResolves ==
    [][/\ \A sid \in DOMAIN sessions, modeId \in ModeIds :
            SetSessionModeCall(sid, modeId)
            => /\ UNCHANGED <<sessions, pendingPrompts, deferred>>
               /\ IF modeId = ""
                  THEN /\ returned'["setSessionMode"] = Some(<<sid, "ok">>)
                       /\ modeCalls' = modeCalls
                  ELSE /\ returned' = returned
                       /\ modeCalls' = Append(modeCalls, SetSessionModeRequest(sid, modeId))
       /\ \A i \in 1..Len(modeCalls), patchOk \in BOOLEAN :
            SetSessionModeResume(i, patchOk)
            => /\ UNCHANGED <<sessions, pendingPrompts, deferred>>
               /\ returned'["setSessionMode"] = Some(<<modeCalls[i].sessionId, "ok">>)
      ]_vars

\* C14 witness: the sessions.patch of a setSessionMode call has failed, the
\* call has returned normally, and the session still has its active run and
\* its PendingRequest with an unsettled deferred.
C14_Witness ==
    \E i \in 1..Len(modeCalls) :
        LET sid == modeCalls[i].sessionId
        IN  /\ modeCalls[i].status = "failed"
            /\ returned["setSessionMode"] = Some(<<sid, "ok">>)
            /\ sid \in DOMAIN pendingPrompts
            /\ sessions[sid].activeRunId = pendingPrompts[sid].idempotencyKey
            /\ deferred[pendingPrompts[sid].idempotencyKey] = Unsettled


\* C15: no step removes a session; the close of a Gateway connection and the
\* next successful handshake leave every session known with its key and its
\* working directory, and a prompt on a session created earlier is never
\* rejected with session-not-found: it records its PendingRequest.
C15_SessionsOutliveConnections ==
    [][/\ DOMAIN sessions \subseteq DOMAIN sessions'
       /\ (GatewayHelloOk \/ \E code \in CloseCodes : GatewayClose(code))
            => /\ DOMAIN sessions' = DOMAIN sessions
               /\ \A sid \in DOMAIN sessions :
                    /\ sessions'[sid].sessionKey = sessions[sid].sessionKey
                    /\ sessions'[sid].cwd = sessions[sid].cwd
                    /\ getSession(Registry, sid)' # Undefined
       /\ \A sid \in DOMAIN sessions :
            PromptCall(sid)
            => /\ returned' = returned
               /\ sid \in DOMAIN pendingPrompts'
               /\ deferred'[pendingPrompts'[sid].idempotencyKey] = Unsettled
      ]_vars

\* C15 witness: a prompt of a session was rejected by a disconnect, the
\* Gateway connection was established again, and a later prompt on the same
\* session was accepted and is pending.
C15_Witness ==
    \E sid \in DOMAIN pendingPrompts, r \in DOMAIN deferred :
        /\ connected
        /\ chatSend[r].sessionId = sid
        /\ deferred[r].state = "rejected"
        /\ deferred[r].value[1] = "Gateway disconnected"
        /\ r < pendingPrompts[sid].idempotencyKey
        /\ deferred[pendingPrompts[sid].idempotencyKey] = Unsettled
        /\ returned["prompt"] = Undefined

\* C16: the successful handshake of a Gateway client marks the Translator
\* connected and replays nothing: no chat.send is issued, no PendingRequest is
\* created, no deferred changes (what the disconnect rejected stays rejected),
\* and the sessions are left alone.
C16_ReconnectReplaysNothing ==
    [][GatewayHelloOk
        => /\ connected'
           /\ UNCHANGED <<chatSend, pendingPrompts, deferred, sessions, aborted,
                          abortCalls, gw, stream>>
      ]_vars

\* C16 witness: connected again after a disconnect that rejected a prompt: the
\* prompt is still rejected, its chat.send is the only request ever issued
\* and the PendingRequest table is empty.
C16_Witness ==
    \E r \in DOMAIN deferred :
        /\ connected
        /\ bridge.reconnectAttempts = 0
        /\ bridge.clients > 1
        /\ deferred[r].state = "rejected"
        /\ deferred[r].value[1] = "Gateway disconnected"
        /\ DOMAIN chatSend = {r}
        /\ chatSend[r].status = "inflight"
        /\ pendingPrompts = <<>>


\* C20: the bridge never has more than one reconnect timer pending, and a
\* scheduleReconnect called (by a close with a code other than 1000 and 1001)
\* while a timer is pending arms no timer and leaves the attempt counter.
C20_SingleReconnectTimer ==
    [][/\ Len(bridge'.pendingTimers) <= 1
       /\ \A code \in CloseCodes \ {1000, 1001} :
            (GatewayClose(code) /\ bridge.reconnectTimer # Undefined)
            => /\ bridge'.pendingTimers = bridge.pendingTimers
               /\ bridge'.reconnectTimer = bridge.reconnectTimer
               /\ bridge'.reconnectAttempts = bridge.reconnectAttempts
      ]_vars

\* C20 witness: the latest scheduleReconnect was called while a timer was
\* pending: the timer armed by an earlier close is still the only one, and the
\* counter, reset by a handshake in between, is still zero.
C20_Witness ==
    /\ bridge.scheduled = "timer pending"
    /\ bridge.pendingTimers = <<ReconnectDelay(1)>>
    /\ bridge.reconnectTimer = Some(ReconnectDelay(1))
    /\ bridge.reconnectAttempts = 0
    /\ ~connected


\* whether the delays of a list never decrease
NonDecreasing(ds) == \A i \in 1..Len(ds), j \in 1..Len(ds) : i <= j => ds[i] <= ds[j]

\* whether a step of the web monitor loop starts a backoff sleep
StartsSleep == monitor.pc = "listening" /\ monitor'.pc = "sleeping"

\* whether a step of the bridge arms a reconnect timer
ArmsTimer == Len(bridge'.pendingTimers) > Len(bridge.pendingTimers)

\* C17: no retry is scheduled once the attempt limit is reached.  A step of
\* the bridge arms a reconnect timer only while the counter is below
\* MAX_RECONNECT_ATTEMPTS, and a close that finds the counter at the limit
\* leaves the counter and the timers; a step of the web monitor loop starts a
\* backoff sleep only if the policy is unlimited (maxAttempts = 0) or the
\* incremented counter is below maxAttempts, and otherwise leaves the loop.
C17_NoRetryPastLimit ==
    [][/\ ArmsTimer => bridge.reconnectAttempts < MAX_RECONNECT_ATTEMPTS
       /\ bridge'.reconnectAttempts <= MAX_RECONNECT_ATTEMPTS
       /\ \A code \in CloseCodes :
            (GatewayClose(code) /\ bridge.reconnectAttempts >= MAX_RECONNECT_ATTEMPTS)
            => /\ bridge'.pendingTimers = bridge.pendingTimers
               /\ bridge'.reconnectAttempts = bridge.reconnectAttempts
       /\ StartsSleep
            => \/ monitor.maxAttempts = 0
               \/ monitor'.reconnectAttempts < monitor.maxAttempts
       /\ (/\ monitor.pc = "listening"
           /\ monitor.maxAttempts > 0
           /\ monitor'.reconnectAttempts > monitor.reconnectAttempts
           /\ monitor'.reconnectAttempts >= monitor.maxAttempts)
            => monitor'.pc = "done" /\ monitor'.exit = "max attempts reached"
      ]_vars

\* C17 witness: both loops have given up: the bridge's latest scheduleReconnect
\* found the counter at MAX_RECONNECT_ATTEMPTS and armed nothing, and the web
\* monitor loop left with its counter at the policy's maxAttempts.
C17_Witness ==
    /\ bridge.scheduled = "gave up"
    /\ bridge.reconnectAttempts = MAX_RECONNECT_ATTEMPTS
    /\ bridge.pendingTimers = <<>>
    /\ monitor.exit = "max attempts reached"
    /\ monitor.reconnectAttempts = monitor.maxAttempts
    /\ monitor.maxAttempts = WebMaxAttempts

\* C18: the delays of the retries scheduled one after the other, since the
\* attempt counter was last reset, never decrease, in the bridge (timers
\* armed) and in the web monitor loop (backoff sleeps).
C18_DelaysNonDecreasing ==
    /\ NonDecreasing(bridge.delays)
    /\ NonDecreasing(monitor.delays)
    /\ \A i \in 1..Len(bridge.delays) : bridge.delays[i] = ReconnectDelay(i)
    /\ \A i \in 1..Len(monitor.delays) :
            monitor.delays[i] = computeBackoff(ReconnectPolicy(monitor.maxAttempts), i)

\* C18 witness: the bridge has armed MAX_RECONNECT_ATTEMPTS timers and the web
\* monitor loop has slept three times without a reset of their counters, the
\* last delay longer than the first.
C18_Witness ==
    /\ Len(bridge.delays) = MAX_RECONNECT_ATTEMPTS
    /\ bridge.delays[1] < bridge.delays[MAX_RECONNECT_ATTEMPTS]
    /\ Len(monitor.delays) >= 3
    /\ monitor.delays[1] < monitor.delays[3]

\* C19 as claimed: every successful connect leaves the attempt counter at
\* zero, in the bridge (handshake) and in the web monitor loop (listener up).
C19_ConnectResetsCounter ==
    [][/\ GatewayHelloOk => bridge'.reconnectAttempts = 0
       /\ ListenerReady => monitor'.reconnectAttempts = 0
      ]_vars

\* C19 amended: the bridge resets its counter on every handshake, and a close
\* (code other than 1000, 1001) that finds the counter at zero and no timer
\* pending arms attempt 1 with the delay RECONNECT_DELAY_MS, while one that
\* finds a timer pending arms nothing.  The web monitor loop leaves its
\* counter alone when a connection comes up; when a connection closes it
\* resets the counter only if the connection was up longer than the heartbeat
\* interval, and then retries as attempt 1; after a shorter connection it
\* retries as the next attempt of the running count.
C19_CounterResets ==
    [][/\ GatewayHelloOk => bridge'.reconnectAttempts = 0 /\ bridge'.delays = <<>>
       /\ \A code \in CloseCodes \ {1000, 1001} :
            GatewayClose(code)
            => IF bridge.reconnectTimer # Undefined
               THEN ~ArmsTimer /\ bridge'.reconnectAttempts = bridge.reconnectAttempts
               ELSE bridge.reconnectAttempts = 0
                    => /\ bridge'.reconnectAttempts = 1
                       /\ bridge'.pendingTimers = <<RECONNECT_DELAY_MS>>
       /\ ListenerReady => monitor'.reconnectAttempts = monitor.reconnectAttempts
       /\ \A abortWon \in BOOLEAN, loggedOut \in BOOLEAN, healthy \in BOOLEAN :
            (ConnectionEnded(abortWon, loggedOut, healthy) /\ StartsSleep)
            => monitor'.reconnectAttempts =
                    IF healthy THEN 1 ELSE monitor.reconnectAttempts + 1
      ]_vars

\* C19 witness: the bridge is at attempt 1 again although it has armed at
\* least two timers before (its counter was reset by a handshake), and the web
\* monitor loop sleeps before its attempt 2 (the connection that came up after
\* attempt 1 did not reset its counter).
C19_Witness ==
    /\ bridge.clients >= 3
    /\ bridge.reconnectAttempts = 1
    /\ bridge.delays = <<RECONNECT_DELAY_MS>>
    /\ monitor.pc = "sleeping"
    /\ monitor.reconnectAttempts = 2


\* C21: a final close ends the retrying whatever budget is left.  In the web
\* monitor loop a close flagged logged-out leaves the loop: the counter is
\* not incremented and no backoff sleep is started.  In the bridge a close
\* with code 1000 or 1001 calls no scheduleReconnect: counter, timer and
\* pending timers stay as they were.
C21_FinalCloseNoRetry ==
    [][/\ \A healthy \in BOOLEAN :
            ConnectionEnded(FALSE, TRUE, healthy)
            => /\ monitor'.pc = "done"
               /\ monitor'.exit \in {"logged out", "stopped"}
               /\ monitor'.reconnectAttempts <= monitor.reconnectAttempts
               /\ Len(monitor'.delays) <= Len(monitor.delays)
       /\ \A code \in {1000, 1001} :
            GatewayClose(code) => bridge' = bridge
      ]_vars

\* C21 witness: the web monitor loop has left on a logged-out close after one
\* retry, with attempts of its limited policy unused, and the bridge's only
\* client was closed without scheduleReconnect ever having been called.
C21_Witness ==
    /\ monitor.exit = "logged out"
    /\ monitor.maxAttempts = WebMaxAttempts
    /\ monitor.reconnectAttempts = 1
    /\ ~monitor.aborted /\ ~monitor.sigintStop
    /\ bridge.clients = 1
    /\ ~connected
    /\ bridge.scheduled = "never"
    /\ bridge.pendingTimers = <<>>


\* C22: with maxAttempts = 0 the web monitor loop, once it keeps the
\* connection alive, never leaves because of the attempt count.  A close
\* leaves the loop only if it is flagged logged-out or a stop was requested
\* (abort signal, SIGINT), and otherwise starts a backoff sleep; a sleep that
\* returns leads to the next connect unless the abort signal has fired; so the
\* loop is only ever left as stopped or logged out.
C22_UnlimitedRetriesForever ==
    [][(monitor.maxAttempts = 0 /\ monitor.keepAlive)
        => /\ \A abortWon \in BOOLEAN, loggedOut \in BOOLEAN, healthy \in BOOLEAN :
                ConnectionEnded(abortWon, loggedOut, healthy)
                => IF loggedOut \/ abortWon \/ monitor.aborted \/ monitor.sigintStop
                   THEN monitor'.pc = "done"
                   ELSE /\ monitor'.pc = "sleeping"
                        /\ monitor'.reconnectAttempts =
                                (IF healthy THEN 0 ELSE monitor.reconnectAttempts) + 1
           /\ \A threw \in BOOLEAN :
                SleepEnded(threw)
                => monitor'.pc = IF threw \/ monitor.aborted THEN "done" ELSE "connecting"
           /\ monitor'.pc = "done" => monitor'.exit \in {"stopped", "logged out"}
           /\ monitor'.exit = "stopped" => monitor'.aborted \/ monitor'.sigintStop
      ]_vars

\* C22 witness: under the unlimited policy the loop sleeps before a retry
\* whose attempt number is beyond the limit of the limited policy.
C22_Witness ==
    /\ monitor.maxAttempts = 0
    /\ monitor.keepAlive
    /\ monitor.pc = "sleeping"
    /\ monitor.reconnectAttempts > WebMaxAttempts
    /\ Len(monitor.delays) = monitor.reconnectAttempts


\* C23: end to end, for a prompt whose run is the one its session holds.  The
\* first delta handled for the prompt, with cumulative text T, forwards T in
\* its one sessionUpdate (none if T is empty) and leaves the prompt's deferred
\* unsettled; a final event that follows while T is all that was received
\* and forwarded forwards nothing more, resolves the deferred with end_turn,
\* and leaves the session without active run and without PendingRequest.
C23_DeltaThenFinal ==
    [][\A runId \in DOMAIN chatSend :
        (/\ EntryFor(runId) # Undefined
         /\ The(EntryFor(runId)).idempotencyKey = runId)
        => LET sid == chatSend[runId].sessionId
           IN  /\ \A T \in StreamTexts :
                    (GatewayChatEvent(runId, "delta", Some(T)) /\ stream[sid] = NoStream)
                    => /\ stream'[sid].chunks = T
                       /\ T # <<>> => pendingPrompts'[sid].sentText = Some(T)
                       /\ deferred'[runId] = Unsettled
                       /\ sessions'[sid].activeRunId = runId
               /\ \A m \in Messages(StreamTexts) :
                    (/\ GatewayChatEvent(runId, "final", m)
                     /\ stream[sid].chunks # <<>>
                     /\ stream[sid].chunks = stream[sid].lastFull)
                    => /\ stream'[sid] = stream[sid]
                       /\ deferred[runId] = Unsettled
                       /\ deferred'[runId] =
                            [state |-> "resolved", value |-> <<"stopReason", "end_turn">>]
                       /\ sessions'[sid].activeRunId = NoRun
                       /\ sessions'[sid].abortController = NoRun
                       /\ sid \notin DOMAIN pendingPrompts'
      ]_vars

\* C23 witness: the session's only prompt got one delta whose text was
\* forwarded in one chunk, then the final event; it is resolved with end_turn
\* and the session is idle.
C23_Witness ==
    \E sid \in DOMAIN sessions :
        /\ DOMAIN chatSend = {1}
        /\ chatSend[1].sessionId = sid
        /\ gw[1] = "ended"
        /\ stream[sid].chunks = <<"a", "b">>
        /\ stream[sid].lastFull = <<"a", "b">>
        /\ deferred[1] = [state |-> "resolved", value |-> <<"stopReason", "end_turn">>]
        /\ sessions[sid].activeRunId = NoRun
        /\ pendingPrompts = <<>>


\* C24: in every state between two callbacks, a session whose active-run slot
\* is set holds a PendingRequest, and the deferred of that PendingRequest is
\* unsettled.
C24_ActiveRunHasPendingRequest ==
    \A sid \in DOMAIN sessions :
        sessions[sid].activeRunId # NoRun
        => /\ sid \in DOMAIN pendingPrompts
           /\ deferred[pendingPrompts[sid].idempotencyKey] = Unsettled


\* C25: once the deferred of a prompt is settled, by whatever path, the
\* active-run slot of the prompt's session does not hold the prompt's run.
C25_SettledRunReleasesSlot ==
    \A runId \in DOMAIN deferred :
        deferred[runId].state # "pending"
        => sessions[chatSend[runId].sessionId].activeRunId # runId


\* the sessions whose active run is runId
SessionsRunning(runId) == {sid \in DOMAIN sessions : sessions[sid].activeRunId = runId}

\* C26: an agent event changes no state of the Translator and sends at most
\* one notification.  A tool event that carries a runId, data and a tool-call
\* identifier, for a run that is the active run of a session, sends to that
\* session: for phase start a tool_call with status running, for phase result
\* a tool_call_update with status error or completed, both with the event's
\* tool-call identifier.  Every other event (no runId, no data, no session
\* with that active run, no tool-call identifier, another stream or phase)
\* sends nothing.
C26_ToolEventsNotifyRunSession ==
    [][\A runId \in AgentRunIds, stream_ \in AgentStreams, data \in ToolData :
        HandleAgentEvent(runId, stream_, data)
        => /\ UNCHANGED translatorVars
           /\ IF /\ runId # Undefined
                 /\ data # Undefined
                 /\ stream_ = "tool"
                 /\ SessionsRunning(The(runId)) # {}
                 /\ The(data).toolCallId # Undefined
                 /\ The(data).phase \in {"start", "result"}
              THEN /\ Len(toolCalls') = Len(toolCalls) + 1
                   /\ LET sent == toolCalls'[Len(toolCalls')]
                      IN  /\ sent.sessionId \in SessionsRunning(The(runId))
                          /\ sent.toolCallId = The(The(data).toolCallId)
                          /\ The(data).phase = "start"
                                => /\ sent.sessionUpdate = "tool_call"
                                   /\ sent.status = "running"
                          /\ The(data).phase = "result"
                                => /\ sent.sessionUpdate = "tool_call_update"
                                   /\ sent.status =
                                        IF The(data).isError = Some(TRUE)
                                        THEN "error" ELSE "completed"
                   /\ SubSeq(toolCalls', 1, Len(toolCalls)) = toolCalls
              ELSE toolCalls' = toolCalls
      ]_vars

\* C26 witness: while two sessions have active runs, the client was sent a
\* tool_call (running) and then a tool_call_update (error) for the session of
\* the second run, and nothing for the other session.
C26_Witness ==
    \E sid \in DOMAIN sessions, other \in DOMAIN sessions :
        /\ sid # other
        /\ sessions[sid].activeRunId = 2
        /\ sessions[other].activeRunId = 1
        /\ Len(toolCalls) = 2
        /\ toolCalls[1].sessionId = sid
        /\ toolCalls[1].sessionUpdate = "tool_call"
        /\ toolCalls[1].status = "running"
        /\ toolCalls[2].sessionId = sid
        /\ toolCalls[2].sessionUpdate = "tool_call_update"
        /\ toolCalls[2].status = "error"
        /\ toolCalls[2].toolCallId = toolCalls[1].toolCallId


\* C27: a newSession step sends no Gateway RPC (no chat.send, no chat.abort,
\* no sessions.patch, no request left in flight) and touches no pending
\* prompt; it adds exactly one session, under a sessionId no earlier call
\* returned, with no active run and the cwd of the call, and leaves every
\* other session as it was.  The sessionId filed in a record is its key.
C27_NewSessionLocalAndFresh ==
    [][\A cwd \in ToolCwds :
        NewSession(cwd)
        => /\ UNCHANGED <<chatSend, gw, modeCalls, toolCalls, pendingPrompts,
                          deferred, connected, aborted, stream>>
           /\ \A sid \in DOMAIN abortCalls : abortCalls'[sid] = abortCalls[sid]
           /\ \E sid \in DOMAIN sessions' :
                /\ sid \notin DOMAIN sessions
                /\ DOMAIN sessions' = DOMAIN sessions \cup {sid}
                /\ sessions'[sid].sessionId = sid
                /\ sessions'[sid].activeRunId = NoRun
                /\ sessions'[sid].abortController = NoRun
                /\ sessions'[sid].cwd = cwd
                /\ abortCalls'[sid] = <<>>
                /\ \A other \in DOMAIN sessions :
                        /\ sessions'[other] = sessions[other]
                        /\ sessions[other].sessionId # sid
      ]_vars

\* C27 witness: two newSession calls with different cwds were made, the
\* first session has since started a run, and the second is idle under its
\* own sessionId and cwd, with no RPC sent for it.
C27_Witness ==
    /\ DOMAIN sessions = {1, 2}
    /\ sessions[1].sessionId # sessions[2].sessionId
    /\ sessions[1].cwd = "/tmp/x"
    /\ sessions[2].cwd = "/tmp/y"
    /\ sessions[1].activeRunId # NoRun
    /\ sessions[2].activeRunId = NoRun
    /\ abortCalls[2] = <<>>
    /\ \A runId \in DOMAIN chatSend : chatSend[runId].sessionId = 1

\* C28: a loadSession call, whatever its session id and whatever the state,
\* fails with the not-implemented error, and changes no session, no pending
\* prompt, no promise, no RPC and no other call's outcome.
C28_LoadSessionNotImplemented ==
    [][\A sid \in CallIds :
        LoadSessionCall(sid)
        => /\ returned'["loadSession"] = Some(<<sid, "Session loading not implemented">>)
           /\ \A op \in Operations \ {"loadSession"} : returned'[op] = returned[op]
           /\ UNCHANGED <<sessions, aborted, pendingPrompts, connected, deferred,
                          chatSend, abortCalls, gw, stream, modeCalls, toolCalls>>
      ]_vars

\* C28 witness: loadSession has failed with not-implemented for a session
\* that has an active run with its prompt pending, while a cancel of another
\* session is suspended on chat.abort.
C28_Witness ==
    \E sid \in DOMAIN sessions, other \in DOMAIN sessions :
        /\ sid # other
        /\ returned["loadSession"] = Some(<<sid, "Session loading not implemented">>)
        /\ sessions[sid].activeRunId # NoRun
        /\ sid \in DOMAIN pendingPrompts
        /\ abortCalls[other] # <<>>

\* C29 as stated: every session with a PendingRequest holds the request's
\* idempotencyKey in its active-run slot, and the chat.send request of that
\* prompt carries the same key.
C29_PendingKeyIsActiveRun ==
    \A sid \in DOMAIN pendingPrompts :
        LET key == pendingPrompts[sid].idempotencyKey
        IN  /\ sessions[sid].activeRunId = key
            /\ key \in DOMAIN chatSend
            /\ chatSend[key].idempotencyKey = key

\* C29, amended: every session with a PendingRequest has sent that request's
\* idempotencyKey as the idempotency key of the prompt's chat.send, for that
\* session, and its active-run slot holds that runId or is empty (a cancel
\* has emptied it and has not yet settled the prompt); and a prompt call that
\* passes its session check takes a runId that no earlier prompt took.
C29_PendingKeyIsSentKey ==
    /\ [](\A sid \in DOMAIN pendingPrompts :
            LET key == pendingPrompts[sid].idempotencyKey
            IN  /\ sessions[sid].activeRunId \in {key, NoRun}
                /\ key \in DOMAIN chatSend
                /\ chatSend[key].idempotencyKey = key
                /\ chatSend[key].sessionId = sid)
    /\ [][\A sid \in KnownSessions :
            Prompt(sid)
            => \E runId \in DOMAIN chatSend' :
                /\ runId \notin DOMAIN chatSend
                /\ runId \notin DOMAIN deferred
                /\ \A s \in DOMAIN pendingPrompts :
                        pendingPrompts[s].idempotencyKey # runId
                /\ \A s \in DOMAIN sessions : sessions[s].activeRunId # runId
                /\ DOMAIN chatSend' = DOMAIN chatSend \cup {runId}
                /\ pendingPrompts'[sid].idempotencyKey = runId
                /\ sessions'[sid].activeRunId = runId
       ]_vars

\* C29 witness: two prompts were made, with different runIds; one is pending
\* under its own key, which is the key of its chat.send and its session's
\* active run, while in the other session a cancel has emptied the active-run
\* slot of the prompt that is still pending.
C29_Witness ==
    \E sid \in DOMAIN pendingPrompts, other \in DOMAIN pendingPrompts :
        /\ sid # other
        /\ pendingPrompts[sid].idempotencyKey # pendingPrompts[other].idempotencyKey
        /\ sessions[sid].activeRunId = pendingPrompts[sid].idempotencyKey
        /\ chatSend[pendingPrompts[sid].idempotencyKey].idempotencyKey
                = pendingPrompts[sid].idempotencyKey
        /\ sessions[other].activeRunId = NoRun
        /\ abortCalls[other] # <<>>

\* C30: under the assumption that the Gateway eventually delivers a terminal
\* chat event for a session's latest run or the connection is lost, the
\* promise of every prompt call, a superseded one included, is eventually
\* resolved or rejected.
C30_EveryPromptSettles ==
    \A runId \in 1..LiveRuns :
        (runId \in DOMAIN deferred)
            ~> (runId \in DOMAIN deferred /\ deferred[runId].state # "pending")

\* the PendingRequests whose promise is already settled
SettledEntries ==
    {sid \in DOMAIN pendingPrompts :
        deferred[pendingPrompts[sid].idempotencyKey].state # "pending"}

\* C31 as stated: no path invokes resolve or reject on a settled promise.
\* The terminal-event, cancel and disconnect paths invoke them on entries of
\* the pending-request table, the chat.send failure callback on the promise
\* of its own prompt call.
C31_NoSettleOfSettled ==
    /\ [](SettledEntries = {})
    /\ [][\A runId \in 1..MaxRuns, err \in RpcErrors :
            ChatSendFails(runId, err) => deferred[runId].state = "pending"]_vars

\* C31, amended: a settled promise keeps its outcome whatever is invoked on
\* it later, and the terminal-event, cancel and disconnect paths never reach
\* a settled promise, as no PendingRequest holds one; only the chat.send
\* failure callback can invoke reject on a promise that is settled.
C31_SettledOnce ==
    /\ [](SettledEntries = {})
    /\ [][\A runId \in DOMAIN deferred :
            /\ deferred[runId].state # "pending" => deferred'[runId] = deferred[runId]
            /\ deferred'[runId] # deferred[runId]
                => \/ \E err \in RpcErrors : ChatSendFails(runId, err)
                   \/ \E sid \in DOMAIN pendingPrompts :
                        /\ pendingPrompts[sid].idempotencyKey = runId
                        /\ sid \notin DOMAIN pendingPrompts'
       ]_vars

\* C31 witness: a prompt was resolved by a terminal chat event and its
\* chat.send has failed afterwards; the promise is still resolved.
C31_Witness ==
    \E runId \in DOMAIN deferred :
        /\ deferred[runId].state = "resolved"
        /\ chatSend[runId].status = "failed"

\* C32: when the chat.send of a prompt fails while the session's
\* PendingRequest belongs to a later prompt, that PendingRequest and the
\* session's active run stay as they are.
C32_LateSendFailureSparesLaterPrompt ==
    [][\A runId \in 1..MaxRuns, err \in RpcErrors :
        LET sid == chatSend[runId].sessionId
        IN  (/\ ChatSendFails(runId, err)
             /\ sid \in DOMAIN pendingPrompts
             /\ pendingPrompts[sid].idempotencyKey > runId)
            => /\ sid \in DOMAIN pendingPrompts'
               /\ pendingPrompts'[sid] = pendingPrompts[sid]
               /\ sessions'[sid].activeRunId = sessions[sid].activeRunId
      ]_vars

\* C33: when chat.abort returns to a cancel, a PendingRequest of a prompt
\* that was made after the cancel call (its run is not the run that was
\* active when cancel was called) is neither removed nor resolved.
C33_CancelSparesLaterPrompt ==
    [][\A sid \in KnownSessions, abortOk \in BOOLEAN :
        (/\ CancelResume(sid, abortOk)
         /\ sid \in DOMAIN pendingPrompts
         /\ pendingPrompts[sid].idempotencyKey # Head(abortCalls[sid]))
        => /\ pendingPrompts' = pendingPrompts
           /\ deferred' = deferred
      ]_vars

\* C34 as stated: every session with a PendingRequest has its active-run
\* slot set.
C34_PendingHasActiveRun ==
    \A sid \in DOMAIN pendingPrompts : sessions[sid].activeRunId # NoRun

\* C34, amended: every session with a PendingRequest has its active-run slot
\* set, unless a cancel of that session is suspended on chat.abort: it has
\* emptied the slot and will remove the PendingRequest when it resumes.
C34_PendingHasActiveRunOrCancel ==
    \A sid \in DOMAIN pendingPrompts :
        \/ /\ sessions[sid].activeRunId # NoRun
           /\ sessions[sid].abortController # NoRun
        \/ abortCalls[sid] # <<>>

\* C34 witness: one session has a PendingRequest and its active run, another
\* has a PendingRequest and an empty slot while its cancel awaits chat.abort.
C34_Witness ==
    \E sid \in DOMAIN pendingPrompts, other \in DOMAIN pendingPrompts :
        /\ sessions[sid].activeRunId = pendingPrompts[sid].idempotencyKey
        /\ abortCalls[sid] = <<>>
        /\ sessions[other].activeRunId = NoRun
        /\ abortCalls[other] = <<pendingPrompts[other].idempotencyKey>>

\* a step leaves every session other than a as it was: its record with the
\* active run, its PendingRequest with the dedup state, what was streamed to
\* it and the promises of its prompts; and every notification the step sends
\* names session a
OthersUntouched(a) ==
    /\ \A b \in DOMAIN sessions \ {a} :
            /\ sessions'[b] = sessions[b]
            /\ (b \in DOMAIN stream) = (b \in DOMAIN stream')
            /\ b \in DOMAIN stream => stream'[b] = stream[b]
            /\ (b \in DOMAIN pendingPrompts) = (b \in DOMAIN pendingPrompts')
            /\ b \in DOMAIN pendingPrompts => pendingPrompts'[b] = pendingPrompts[b]
            /\ \A runId \in RunsOf(b) : deferred'[runId] = deferred[runId]
    /\ \A i \in (Len(toolCalls) + 1)..Len(toolCalls') : toolCalls'[i].sessionId = a

\* C35: a chat event that carries the session key of session a, and a tool
\* event that carries the runId of a prompt of session a, send no
\* notification under another session's id and change no other session's
\* dedup state, active run, PendingRequest or promise.
C35_SessionsIsolated ==
    [][/\ \A a \in KnownSessions, state \in IsoStates, m \in Messages(Texts) :
            (ChatEventFor(a, state, m) /\ UNCHANGED callVars) => OthersUntouched(a)
       /\ \A runId \in AgentRunIds, stream_ \in AgentStreams, data \in IsoData :
            (/\ HandleAgentEvent(runId, stream_, data)
             /\ runId # Undefined
             /\ The(runId) \in DOMAIN chatSend)
            => OthersUntouched(chatSend[The(runId)].sessionId)
      ]_vars

\* C35 witness: two sessions have a prompt pending and a run active; one was
\* sent a text chunk and a tool notification, the other was sent nothing and
\* its PendingRequest has forwarded nothing.
C35_Witness ==
    \E a \in DOMAIN pendingPrompts, b \in DOMAIN pendingPrompts :
        /\ a # b
        /\ sessions[a].activeRunId # NoRun
        /\ sessions[b].activeRunId # NoRun
        /\ stream[a].chunks # <<>>
        /\ Len(toolCalls) = 1
        /\ toolCalls[1].sessionId = a
        /\ stream[b] = NoStream
        /\ pendingPrompts[b].sentText = Undefined
        /\ deferred[pendingPrompts[b].idempotencyKey].state = "pending"

\* C36: a step that settles the promise of a prompt leaves the prompt's
\* session without PendingRequest, only a prompt call gives a session a
\* PendingRequest again, and a chat event for a session without
\* PendingRequest changes nothing; so between the end of a run and the next
\* prompt no text chunk is forwarded to the session.
C36_NothingAfterTerminal ==
    [][/\ \A runId \in DOMAIN deferred :
            (deferred[runId].state = "pending" /\ deferred'[runId].state # "pending")
            => chatSend[runId].sessionId \notin DOMAIN pendingPrompts'
       /\ \A sid \in DOMAIN sessions :
            (sid \notin DOMAIN pendingPrompts /\ sid \in DOMAIN pendingPrompts')
            => Prompt(sid)
       /\ \A runId \in 1..LiveRuns, state \in ChatStates, m \in Messages(Texts) :
            (/\ runId \in DOMAIN chatSend
             /\ chatSend[runId].sessionId \notin DOMAIN pendingPrompts
             /\ GatewayChatEvent(runId, state, m))
            => UNCHANGED <<sessions, aborted, pendingPrompts, connected, deferred,
                           chatSend, abortCalls, stream>>
       /\ \A sid \in DOMAIN stream :
            (sid \notin DOMAIN pendingPrompts /\ sid \notin DOMAIN pendingPrompts')
            => stream'[sid] = stream[sid]
      ]_vars

\* C36 witness: a run streamed a chunk and was then cancelled; the session
\* has no PendingRequest and has received that one chunk, while the Gateway
\* has not ended the run and can still send its deltas.
C36_Witness ==
    \E sid \in DOMAIN stream, runId \in DOMAIN deferred :
        /\ chatSend[runId].sessionId = sid
        /\ deferred[runId] = Resolve(Unsettled, <<"stopReason", "cancelled">>)
        /\ sid \notin DOMAIN pendingPrompts
        /\ stream[sid].chunks = <<"a">>
        /\ stream[sid].lastFull = <<"a">>
        /\ gw[runId] = "open"

\* the stored sent length of a PendingRequest, 0 while nothing is stored
SentLength(entry) == OrElse(entry.sentTextLength, 0)

\* C37: for every PendingRequest the stored sent length is the length of the
\* stored sent text and the total length of the chunks forwarded for the
\* request; while the request stays in the table the length does not
\* decrease; and the PendingRequest a prompt call records has length 0, no
\* sent text and no chunk forwarded.
C37_DedupStateConsistent ==
    /\ [](\A sid \in DOMAIN pendingPrompts :
            /\ SentLength(pendingPrompts[sid]) = Len(OrElse(pendingPrompts[sid].sentText, <<>>))
            /\ SentLength(pendingPrompts[sid]) = Len(stream[sid].chunks))
    /\ [][\A sid \in DOMAIN pendingPrompts :
            /\ (/\ sid \in DOMAIN pendingPrompts'
                /\ pendingPrompts'[sid].idempotencyKey = pendingPrompts[sid].idempotencyKey)
               => SentLength(pendingPrompts'[sid]) >= SentLength(pendingPrompts[sid])
            /\ (/\ sid \in DOMAIN pendingPrompts'
                /\ pendingPrompts'[sid].idempotencyKey # pendingPrompts[sid].idempotencyKey)
               => /\ SentLength(pendingPrompts'[sid]) = 0
                  /\ pendingPrompts'[sid].sentText = Undefined
                  /\ stream'[sid].chunks = <<>>
       ]_vars
    /\ [][\A sid \in DOMAIN pendingPrompts' \ DOMAIN pendingPrompts :
            /\ SentLength(pendingPrompts'[sid]) = 0
            /\ pendingPrompts'[sid].sentText = Undefined
            /\ stream'[sid].chunks = <<>>
       ]_vars

\* C37 witness: the second prompt of a session has had three characters
\* forwarded, and its stored sent length is 3 and its stored sent text is
\* those three characters.
C37_Witness ==
    \E sid \in DOMAIN pendingPrompts :
        /\ pendingPrompts[sid].idempotencyKey = 2
        /\ pendingPrompts[sid].sentTextLength = Some(3)
        /\ Len(The(pendingPrompts[sid].sentText)) = 3
        /\ Len(stream[sid].chunks) = 3
        /\ stream[sid].chunks = The(pendingPrompts[sid].sentText)

\* C38: when a client that the timer callback has replaced calls onClose, no
\* prompt whose chat.send went to the latest client is rejected, and while
\* the latest client's connection is up no reconnect timer is armed.
C38_StaleCloseIgnored ==
    [][\A client \in 1..ClientsMax, code \in CloseCodes :
        (ClientClose(client, code) /\ client < bridge.clients)
        => /\ \A runId \in RunsOnLatest : deferred'[runId] = deferred[runId]
           /\ LatestUp => bridge'.pendingTimers = bridge.pendingTimers
      ]_vars

\* the prompt calls of the TauRpcClient whose promise is not settled
TauUnsettled == {r \in 1..Len(tau.calls) : tau.calls[r].promise.state = "pending"}

\* C39: a prompt called while the promise of an earlier prompt is not settled
\* is rejected with the already-handling error, and a request that was given
\* the pending slot keeps it until it is settled.
C39_OneRequestAtATime ==
    /\ [](\A r \in TauUnsettled :
            tau.calls[r].at = "slot" => tau.pending = Some(r))
    /\ [][(TauPrompt /\ TauUnsettled # {})
            => LET call == tau'.calls[Len(tau'.calls)]
               IN  /\ call.promise = [state |-> "rejected", value |-> TauBusy]
                   /\ tau'.pending = tau.pending
         ]_vars

\* the prompt calls that were given the pending slot: their timer was armed
TauAccepted == {r \in 1..Len(tau.calls) : tau.calls[r].timer # "none"}

\* what settles an accepted request
TauSettlers == {"message_end", TauExited, TauTimedOut}

\* C40: a request that was given the pending slot is settled, once, by the
\* message_end line, by the exit of a child or by its timer; the step that
\* settles it leaves the slot empty and its timer not armed, the timer of a
\* settled request is never armed, and a prompt that finds the slot empty is
\* not rejected as already handling.
C40_SettledOnceSlotFreed ==
    /\ [](\A r \in TauAccepted \ TauUnsettled : tau.calls[r].timer # "armed")
    /\ [][\A r \in TauAccepted :
            IF r \in TauUnsettled
            THEN tau'.calls[r].promise # tau.calls[r].promise
                    => /\ tau'.calls[r].promise.value \in TauSettlers
                       /\ tau'.pending = Undefined
                       /\ tau'.calls[r].timer # "armed"
            ELSE tau'.calls[r].promise = tau.calls[r].promise
         ]_vars
    /\ [][(TauPrompt /\ tau.pending = Undefined)
            => tau'.calls[Len(tau'.calls)].promise.state = "pending"]_vars
    /\ \A r \in 1..TauCalls : [](r \in TauAccepted => <>(r \notin TauUnsettled))

\* C40 witness: the first request was resolved by the message_end line, its
\* timer is cleared, and the prompt called after it was given the slot.
C40_Witness ==
    /\ Len(tau.calls) >= 2
    /\ tau.calls[1].promise = [state |-> "resolved", value |-> "message_end"]
    /\ tau.calls[1].timer = "cleared"
    /\ tau.calls[2].timer = "armed"
    /\ tau.pending = Some(2)
=============================================================================
